---- MODULE Spec2Model ----
(***************************************************************************)
(* Recorded display-list operations of libs/hwui/DisplayListOp.h and the   *)
(* two passes (defer, replay) that execute them against a renderer and a   *)
(* deferred batch buffer.                                                  *)
(*                                                                         *)
(* Floats are modelled by integers; stroke widths are even so that the     *)
(* half-width outset (strokeWidth * 0.5f) is exact.                        *)
(***************************************************************************)
EXTENDS Integers, Sequences, FiniteSets, TLC

VARIABLES
    lists,          \* recorded lists: lists[1] is the root, the others are nested lists
    mode,           \* "record", "replay", "defer", "flush", "done"
    via,            \* the pass that was started: "none", "replay" or "defer"
    stack,          \* active DisplayList frames <<[list, pc]>>, innermost last
    renderer,       \* OpenGLRenderer: the snapshot stack (save-count = its length)
    log,            \* every renderer and batch-buffer call of the pass, in call order
    mDeferredList,  \* DeferredDisplayList: the records registered by the defer pass
    fpc,            \* position of the flush in mDeferredList
    mDrawGlStatus,  \* ReplayStateStruct::mDrawGlStatus, the draw-status accumulator
    mReplayFlags,   \* DeferStateStruct / ReplayStateStruct ::mReplayFlags
    baseline,       \* the saveCount handed to every operation of the pass
    startCount,     \* renderer save-count when the pass began
    ret,            \* <<status>> returned by the applyDraw of the last step, or << >>
    first,          \* what a first replay of the root list did, kept for a second one
    probe           \* one operation under construction and classification

vars == <<lists, mode, via, stack, renderer, log, mDeferredList, fpc,
          mDrawGlStatus, mReplayFlags, baseline, startCount, ret, first, probe>>

-----------------------------------------------------------------------------
(* Bounds of the model *)

\* longest root list recorded from the core operations
MaxOpsCore == 4
\* longest root list recorded from the full set of operation kinds
MaxOpsAll == 1
\* most points an operation is built from
MaxPoints == 2

-----------------------------------------------------------------------------
(* Program constants *)

\* DisplayList::kReplayFlag_ClipChildren
kReplayFlag_ClipChildren == 1
\* DrawGlInfo::kStatusDone
kStatusDone == 0
\* SkRegion::Op: the two set operations that keep a rectangular clip rectangular
kIntersect_Op == 1
kReplace_Op == 5
\* SkRegion::Op: difference, union, xor, reverse-difference
OtherRegionOps == {0, 2, 3, 4}
RegionOps == {kIntersect_Op, kReplace_Op} \cup OtherRegionOps
\* SkPaint::Style
kFill_Style == 0
\* colors are ARGB words, written <<alpha, red, green, blue>>; 0xff000000 is the
\* color the text operations compare the paint's color with
kOpaqueBlack == <<255, 0, 0, 0>>
PaintStyles == {kFill_Style, 1, 2}
\* DrawGlInfo::Status bits: a functor asks for a redraw or for an invoke, a draw
\* primitive reports that it drew
kStatusDraw == 1
kStatusInvoke == 2
kStatusDrew == 4
\* draw statuses the renderer may return
StatusValues == {kStatusDone, kStatusDraw, kStatusInvoke, kStatusDrew}
\* no applyDraw was called
NoStatus == << >>

-----------------------------------------------------------------------------
(* Small helpers *)

Min(a, b) == IF a < b THEN a ELSE b
Max(a, b) == IF a > b THEN a ELSE b

RECURSIVE BitOr(_, _)
BitOr(a, b) ==
    IF a = 0 THEN b
    ELSE IF b = 0 THEN a
    ELSE (IF (a % 2 = 1) \/ (b % 2 = 1) THEN 1 ELSE 0) + 2 * BitOr(a \div 2, b \div 2)

RECURSIVE BitAnd(_, _)
BitAnd(a, b) ==
    IF a = 0 \/ b = 0 THEN 0
    ELSE (IF (a % 2 = 1) /\ (b % 2 = 1) THEN 1 ELSE 0) + 2 * BitAnd(a \div 2, b \div 2)

BitAnd1(a, bit) == (a \div bit) % 2 = 1

\* Rect: <<left, top, right, bottom>>
EmptyRect == <<0, 0, 0, 0>>
RectIsEmpty(r) == r[1] >= r[3] \/ r[2] >= r[4]
RectOutset(r, d) == <<r[1] - d, r[2] - d, r[3] + d, r[4] + d>>
RectIntersect(a, b) ==
    <<Max(a[1], b[1]), Max(a[2], b[2]), Min(a[3], b[3]), Min(a[4], b[4])>>
RectTranslate(r, dx, dy) == <<r[1] + dx, r[2] + dy, r[3] + dx, r[4] + dy>>

-----------------------------------------------------------------------------
(* External resources referenced by operations (opaque, owned by the caller) *)

\* SkPaint descriptors; an operation's mPaint is an index here, 0 is a null paint.
\* Styles: fill, stroke (1), stroke-and-fill (2).
Paint(style, strokeWidth, antiAlias, pathEffect, color, textAlign) ==
    [style |-> style, strokeWidth |-> strokeWidth, antiAlias |-> antiAlias,
     pathEffect |-> pathEffect, color |-> color, textAlign |-> textAlign]
Paints == <<
    Paint(kFill_Style, 0, FALSE, FALSE, <<0, 0, 0, 0>>, 0),
    Paint(1, 4, TRUE, FALSE, <<0, 0, 0, 7>>, 0),
    Paint(kFill_Style, 0, TRUE, FALSE, kOpaqueBlack, 1),
    Paint(kFill_Style, 2, FALSE, TRUE, <<128, 0, 0, 0>>, 2),
    Paint(kFill_Style, 0, TRUE, TRUE, <<255, 255, 255, 255>>, 0),
    Paint(1, 2, FALSE, FALSE, kOpaqueBlack, 0),
    Paint(1, 2, FALSE, TRUE, <<128, 0, 0, 0>>, 1),
    Paint(1, 4, TRUE, TRUE, kOpaqueBlack, 2),
    Paint(2, 2, FALSE, FALSE, <<255, 0, 0, 7>>, 0),
    Paint(2, 4, TRUE, FALSE, <<128, 0, 0, 0>>, 0),
    Paint(2, 2, FALSE, TRUE, kOpaqueBlack, 0),
    Paint(2, 4, TRUE, TRUE, <<0, 0, 0, 0>>, 1) >>
NullPaint == 0

\* SkBitmap width/height
BitmapSize == <<8, 6>>
\* PathCache::computePathBounds result for the one path: left, top, offset, width, height
PathBounds == <<2, 3, 1, 10, 12>>
\* SkPaint::FontMetrics fTop / fBottom
FontTop == -8
FontBottom == 2

\* nested DisplayList: id of a list in `lists`, 0 is a null pointer
NullList == 0

-----------------------------------------------------------------------------
(* Operation values.  Every operation is a record                           *)
(*   kind            the concrete class, without its Op suffix              *)
(*   args            the recorded parameters                                *)
(*   mPaint          DrawOp::mPaint (0 for state operations and null)       *)
(*   mQuickRejected  DrawOp::mQuickRejected                                 *)
(*   mLocalBounds    DrawBoundedOp::mLocalBounds                            *)
(*   mBounds         DisplayListOp::state.mBounds                           *)
(*   mDisplayList    DrawDisplayListOp::mDisplayList                        *)
(*   mPrecacheTransform  DrawTextOp::mPrecacheTransform                     *)

\* font transforms: <<scale x, scale y>>.  NoTransform stands for the member
\* that only DrawTextOp has, FilledFF for its value after memset(0xff)
NoTransform == << >>
FilledFF == <<"0xff">>
Identity == <<1, 1>>

DisplayListOp(kind, args) ==
    [kind |-> kind, args |-> args, mPaint |-> NullPaint, mQuickRejected |-> FALSE,
     mLocalBounds |-> EmptyRect, mBounds |-> EmptyRect, mDisplayList |-> NullList,
     mPrecacheTransform |-> NoTransform]

StateOp(kind, args) == DisplayListOp(kind, args)

DrawOp(kind, args, paint) ==
    [DisplayListOp(kind, args) EXCEPT !.mPaint = paint, !.mQuickRejected = FALSE]

DrawBoundedOp(kind, args, rect, paint) ==
    [DrawOp(kind, args, paint) EXCEPT !.mLocalBounds = rect]

\* DrawBoundedOp(points, count, paint): smallest rect around the points
\* the loop of DrawBoundedOp(points, count, paint) never entered
PointBoundsFrom_NoFold(points, count, i, acc) == acc
RECURSIVE PointBoundsFrom(_, _, _, _)
PointBoundsFrom(points, count, i, acc) ==
    IF i >= count THEN acc
    ELSE PointBoundsFrom(points, count, i + 2,
            <<Min(acc[1], points[i + 1]), Min(acc[2], points[i + 2]),
              Max(acc[3], points[i + 1]), Max(acc[4], points[i + 2])>>)

DrawBoundedOpPoints(kind, args, points, count, paint) ==
    DrawBoundedOp(kind, args,
        PointBoundsFrom(points, count, 2, <<points[1], points[2], points[1], points[2]>>),
        paint)

strokeWidthOutset(op) == Paints[op.mPaint].strokeWidth \div 2

StateKinds == {"Save", "RestoreToCount", "SaveLayer", "Translate", "Rotate", "Scale",
               "Skew", "SetMatrix", "ConcatMatrix", "ClipRect", "ClipPath", "ClipRegion",
               "ResetShader", "SetupShader", "ResetColorFilter", "SetupColorFilter",
               "ResetShadow", "SetupShadow", "ResetPaintFilter", "SetupPaintFilter"}
ClipKinds == {"ClipRect", "ClipPath", "ClipRegion"}
StrokableKinds == {"DrawRect", "DrawRoundRect", "DrawCircle", "DrawOval", "DrawArc"}
BoundedKinds == {"DrawBitmap", "DrawBitmapMatrix", "DrawBitmapRect", "DrawBitmapData",
                 "DrawBitmapMesh", "DrawPatch", "DrawRects", "DrawPath", "DrawLines",
                 "DrawPoints", "DrawText", "DrawDisplayList"} \cup StrokableKinds
UnboundedKinds == {"DrawColor", "DrawTextOnPath", "DrawPosText", "DrawFunctor", "DrawLayer"}
DrawKinds == BoundedKinds \cup UnboundedKinds

IsStateOp(op) == op.kind \in StateKinds
IsDrawOp(op) == op.kind \in DrawKinds

(* State operations *)
SaveOp(flags) == StateOp("Save", <<flags>>)
RestoreToCountOp(count) == StateOp("RestoreToCount", <<count>>)
SaveLayerOp(l, t, r, b, alpha, xmode, flags) ==
    StateOp("SaveLayer", <<l, t, r, b, alpha, xmode, flags>>)
TranslateOp(dx, dy) == StateOp("Translate", <<dx, dy>>)
RotateOp(degrees) == StateOp("Rotate", <<degrees>>)
ScaleOp(sx, sy) == StateOp("Scale", <<sx, sy>>)
SkewOp(sx, sy) == StateOp("Skew", <<sx, sy>>)
SetMatrixOp(matrix) == StateOp("SetMatrix", <<matrix>>)
ConcatMatrixOp(matrix) == StateOp("ConcatMatrix", <<matrix>>)
\* ClipOp keeps mOp as the last argument
ClipRectOp(l, t, r, b, op) == StateOp("ClipRect", <<l, t, r, b, op>>)
ClipPathOp(path, op) == StateOp("ClipPath", <<path, op>>)
ClipRegionOp(region, op) == StateOp("ClipRegion", <<region, op>>)
ResetShaderOp == StateOp("ResetShader", <<>>)
SetupShaderOp(shader) == StateOp("SetupShader", <<shader>>)
ResetColorFilterOp == StateOp("ResetColorFilter", <<>>)
SetupColorFilterOp(filter) == StateOp("SetupColorFilter", <<filter>>)
ResetShadowOp == StateOp("ResetShadow", <<>>)
SetupShadowOp(radius, dx, dy, color) == StateOp("SetupShadow", <<radius, dx, dy, color>>)
ResetPaintFilterOp == StateOp("ResetPaintFilter", <<>>)
SetupPaintFilterOp(clearBits, setBits) == StateOp("SetupPaintFilter", <<clearBits, setBits>>)

(* Draw operations *)
DrawBitmapOp(bitmap, l, t, paint) ==
    DrawBoundedOp("DrawBitmap", <<bitmap>>,
                  <<l, t, l + BitmapSize[1], t + BitmapSize[2]>>, paint)
\* the matrix is a translation <<dx, dy>>; mapRect of (0, 0, width, height)
DrawBitmapMatrixOp(bitmap, matrix, paint) ==
    DrawBoundedOp("DrawBitmapMatrix", <<bitmap, matrix[1], matrix[2]>>,
                  RectTranslate(<<0, 0, BitmapSize[1], BitmapSize[2]>>, matrix[1], matrix[2]),
                  paint)
DrawBitmapRectOp(bitmap, src, dst, paint) ==
    DrawBoundedOp("DrawBitmapRect", <<bitmap, src[1], src[2], src[3], src[4]>>, dst, paint)
DrawBitmapDataOp(bitmap, l, t, paint) ==
    [DrawBitmapOp(bitmap, l, t, paint) EXCEPT !.kind = "DrawBitmapData"]
DrawBitmapMeshOp(bitmap, meshWidth, meshHeight, vertices, paint) ==
    DrawBoundedOpPoints("DrawBitmapMesh", <<bitmap, meshWidth, meshHeight>>, vertices,
                        2 * (meshWidth + 1) * (meshHeight + 1), paint)
DrawPatchOp(bitmap, l, t, r, b, alpha, xmode) ==
    DrawBoundedOp("DrawPatch", <<bitmap, alpha, xmode>>, <<l, t, r, b>>, NullPaint)
DrawColorOp(color, xmode) == DrawOp("DrawColor", <<color, xmode>>, NullPaint)
DrawStrokableOp(kind, args, l, t, r, b, paint) ==
    DrawBoundedOp(kind, args, <<l, t, r, b>>, paint)
DrawRectOp(l, t, r, b, paint) == DrawStrokableOp("DrawRect", <<>>, l, t, r, b, paint)
DrawRectsOp(rects, count, paint) ==
    DrawBoundedOpPoints("DrawRects", <<count>>, rects, count, paint)
DrawRoundRectOp(l, t, r, b, rx, ry, paint) ==
    DrawStrokableOp("DrawRoundRect", <<rx, ry>>, l, t, r, b, paint)
DrawCircleOp(x, y, radius, paint) ==
    DrawStrokableOp("DrawCircle", <<x, y, radius>>,
                    x - radius, y - radius, x + radius, y + radius, paint)
DrawOvalOp(l, t, r, b, paint) == DrawStrokableOp("DrawOval", <<>>, l, t, r, b, paint)
DrawArcOp(l, t, r, b, startAngle, sweepAngle, useCenter, paint) ==
    DrawStrokableOp("DrawArc", <<startAngle, sweepAngle, useCenter>>, l, t, r, b, paint)
DrawPathOp(path, paint) ==
    LET left == PathBounds[1] - PathBounds[3]
        top == PathBounds[2] - PathBounds[3]
    IN DrawBoundedOp("DrawPath", <<path>>,
                     <<left, top, left + PathBounds[4], top + PathBounds[5]>>, paint)
DrawLinesOp(points, count, paint) ==
    LET op == DrawBoundedOpPoints("DrawLines", <<count>>, points, count, paint)
    IN [op EXCEPT !.mLocalBounds = RectOutset(@, strokeWidthOutset(op))]
DrawPointsOp(points, count, paint) ==
    [DrawLinesOp(points, count, paint) EXCEPT !.kind = "DrawPoints"]
DrawSomeTextOp(kind, args, bytesCount, count, paint) ==
    DrawOp(kind, <<bytesCount, count>> \o args, paint)
DrawTextOnPathOp(bytesCount, count, path, hOffset, vOffset, paint) ==
    DrawSomeTextOp("DrawTextOnPath", <<path, hOffset, vOffset>>, bytesCount, count, paint)
DrawPosTextOp(bytesCount, count, paint) ==
    DrawSomeTextOp("DrawPosText", <<>>, bytesCount, count, paint)
\* textAlign: 0 left, 1 center, 2 right
DrawTextOp(bytesCount, count, x, y, paint, length) ==
    LET align == Paints[paint].textAlign
        x2 == IF align = 1 THEN x - (length \div 2)
              ELSE IF align = 2 THEN x - length ELSE x
    IN [DrawBoundedOp("DrawText", <<bytesCount, count, x, y, length>>,
                      <<x2, y + FontTop, x2 + length, y + FontBottom>>, paint)
           EXCEPT !.mPrecacheTransform = FilledFF]
DrawFunctorOp(functor) == DrawOp("DrawFunctor", <<functor>>, NullPaint)
\* displayList is <<list id, getWidth(), getHeight()>>
DrawDisplayListOp(displayList, flags) ==
    [DrawBoundedOp("DrawDisplayList", <<flags>>, <<0, 0, displayList[2], displayList[3]>>,
                   NullPaint)
        EXCEPT !.mDisplayList = displayList[1]]
DrawLayerOp(layer, x, y) == DrawOp("DrawLayer", <<layer, x, y>>, NullPaint)

\* DrawOp::setQuickRejected
setQuickRejected(op, quickRejected) == [op EXCEPT !.mQuickRejected = quickRejected]

\* getLocalBounds(Rect& localBounds): [ok, the value left in localBounds]
DrawOp_getLocalBounds(op, localBounds) == [ok |-> FALSE, rect |-> localBounds]
DrawBoundedOp_getLocalBounds(op, localBounds) == [ok |-> TRUE, rect |-> op.mLocalBounds]
\* DrawStrokableOp::getLocalBounds growing the rectangle it is handed instead
\* of the recorded one
DrawStrokableOp_getLocalBounds_Accumulates(op, localBounds) ==
    [ok |-> TRUE,
     rect |-> IF op.mPaint # NullPaint /\ Paints[op.mPaint].style # kFill_Style
              THEN RectOutset(IF RectIsEmpty(localBounds) THEN op.mLocalBounds
                              ELSE localBounds, strokeWidthOutset(op))
              ELSE op.mLocalBounds]
DrawStrokableOp_getLocalBounds(op, localBounds) ==
    [ok |-> TRUE,
     rect |-> IF op.mPaint # NullPaint /\ Paints[op.mPaint].style # kFill_Style
              THEN RectOutset(op.mLocalBounds, strokeWidthOutset(op))
              ELSE op.mLocalBounds]
getLocalBounds(op, localBounds) ==
    IF op.kind \in StrokableKinds THEN DrawStrokableOp_getLocalBounds(op, localBounds)
    ELSE IF op.kind \in BoundedKinds THEN DrawBoundedOp_getLocalBounds(op, localBounds)
    ELSE DrawOp_getLocalBounds(op, localBounds)

\* getBatchId(), per class: a DeferredDisplayList::OpBatchId
DrawOp_getBatchId(op) == "kOpBatch_None"
DrawBitmapOp_getBatchId(op) == "kOpBatch_Bitmap"
DrawPatchOp_getBatchId(op) == "kOpBatch_Patch"
\* DrawStrokableOp::getBatchId looking at the antialiasing flag first
DrawStrokableOp_getBatchId_AAFirst(op) ==
    IF Paints[op.mPaint].antiAlias THEN "kOpBatch_AlphaVertices"
    ELSE IF Paints[op.mPaint].pathEffect THEN "kOpBatch_AlphaMaskTexture"
    ELSE "kOpBatch_Vertices"
\* DrawStrokableOp::getBatchId without the antialiasing test
DrawStrokableOp_getBatchId_NoAA(op) ==
    IF Paints[op.mPaint].pathEffect THEN "kOpBatch_AlphaMaskTexture"
    ELSE "kOpBatch_Vertices"
\* DrawStrokableOp::getBatchId giving no batch to an operation marked rejected
DrawStrokableOp_getBatchId_ByRejected(op) ==
    IF op.mQuickRejected THEN "kOpBatch_None"
    ELSE IF Paints[op.mPaint].pathEffect THEN "kOpBatch_AlphaMaskTexture"
    ELSE IF Paints[op.mPaint].antiAlias THEN "kOpBatch_AlphaVertices"
    ELSE "kOpBatch_Vertices"
DrawStrokableOp_getBatchId(op) ==
    IF Paints[op.mPaint].pathEffect THEN "kOpBatch_AlphaMaskTexture"
    ELSE IF Paints[op.mPaint].antiAlias THEN "kOpBatch_AlphaVertices"
    ELSE "kOpBatch_Vertices"
DrawRectsOp_getBatchId(op) == "kOpBatch_Vertices"
DrawPathOp_getBatchId(op) == "kOpBatch_AlphaMaskTexture"
DrawLinesOp_getBatchId(op) ==
    IF Paints[op.mPaint].antiAlias THEN "kOpBatch_AlphaVertices" ELSE "kOpBatch_Vertices"
DrawSomeTextOp_getBatchId(op) ==
    IF Paints[op.mPaint].color = kOpaqueBlack THEN "kOpBatch_Text" ELSE "kOpBatch_ColorText"
\* DrawTextOp::getBatchId comparing the colour without its alpha byte
DrawTextOp_getBatchId_IgnoresAlpha(op) ==
    IF SubSeq(Paints[op.mPaint].color, 2, 4) = SubSeq(kOpaqueBlack, 2, 4)
    THEN "kOpBatch_Text" ELSE "kOpBatch_ColorText"
DrawTextOp_getBatchId(op) ==
    IF Paints[op.mPaint].color = kOpaqueBlack THEN "kOpBatch_Text" ELSE "kOpBatch_ColorText"
getBatchId(op) ==
    CASE op.kind \in {"DrawBitmap", "DrawBitmapMatrix", "DrawBitmapRect", "DrawBitmapData",
                      "DrawBitmapMesh"} -> DrawBitmapOp_getBatchId(op)
      [] op.kind = "DrawPatch" -> DrawPatchOp_getBatchId(op)
      [] op.kind \in StrokableKinds -> DrawStrokableOp_getBatchId(op)
      [] op.kind = "DrawRects" -> DrawRectsOp_getBatchId(op)
      [] op.kind = "DrawPath" -> DrawPathOp_getBatchId(op)
      [] op.kind \in {"DrawLines", "DrawPoints"} -> DrawLinesOp_getBatchId(op)
      [] op.kind \in {"DrawTextOnPath", "DrawPosText"} -> DrawSomeTextOp_getBatchId(op)
      [] op.kind = "DrawText" -> DrawTextOp_getBatchId(op)
      [] OTHER -> DrawOp_getBatchId(op)
\* the classes whose getBatchId dereferences mPaint
BatchIdReadsPaint(op) ==
    op.kind \in StrokableKinds \cup {"DrawLines", "DrawPoints", "DrawTextOnPath",
                                     "DrawPosText", "DrawText"}

-----------------------------------------------------------------------------
(* The collaborators of a pass, as one value w:                             *)
(*   w.r       the renderer's snapshot stack                                *)
(*   w.log     the calls made so far                                        *)
(*   w.dl      the deferred batch buffer                                    *)
(*   w.status  the draw-status accumulator                                  *)
(*   w.lists   the recorded lists (operations are mutable through w.lists)  *)
(*   w.cur     <<list, index>> of the operation being executed              *)
(*   w.ret     <<status>> the last applyDraw returned, << >> before any     *)
(*   w.enter   the nested list the operation recurses into, or NullList     *)

CurOp(w) == w.lists[w.cur[1]][w.cur[2]]

\* Snapshot: the clip (a rectangle, plus the number of non-rectangular clip
\* operations applied to it) and the translation of the current transform
Snapshot(clip, cx, tx, ty) == [clip |-> clip, cx |-> cx, tx |-> tx, ty |-> ty]
Top(r) == r[Len(r)]
SetTop(r, snap) == [r EXCEPT ![Len(r)] = snap]
ClipOf(r) == <<Top(r).clip[1], Top(r).clip[2], Top(r).clip[3], Top(r).clip[4], Top(r).cx>>

\* one observed call: who received it, its name and arguments, the operation that
\* made it, and the renderer save-count, renderer clip and the operation's
\* state.mBounds at the moment of the call
Call(w, who, call, args) ==
    [w EXCEPT !.log = Append(@,
        [who |-> who, call |-> call, args |-> args, src |-> w.cur,
         sc |-> Len(w.r), clip |-> ClipOf(w.r), bounds |-> CurOp(w).mBounds])]

(* OpenGLRenderer *)
getSaveCount(w) == Len(w.r)
\* save returns the save-count before the new snapshot: callers read getSaveCount first
save(w, flags) ==
    [Call(w, "renderer", "save", <<flags>>) EXCEPT !.r = Append(@, Top(@))]
restoreToCount(w, saveCount) ==
    [Call(w, "renderer", "restoreToCount", <<saveCount>>)
        EXCEPT !.r = SubSeq(@, 1, Min(Len(@), Max(saveCount, 1)))]
saveLayer(w, args) ==
    [Call(w, "renderer", "saveLayer", args) EXCEPT !.r = Append(@, Top(@))]
saveLayerDeferred(w, args) ==
    [Call(w, "renderer", "saveLayerDeferred", args) EXCEPT !.r = Append(@, Top(@))]
translate(w, dx, dy) ==
    [Call(w, "renderer", "translate", <<dx, dy>>)
        EXCEPT !.r = SetTop(@, [Top(@) EXCEPT !.tx = @ + dx, !.ty = @ + dy])]
ClipResult(snap, rect, op) ==
    IF op = kIntersect_Op THEN [snap EXCEPT !.clip = RectIntersect(@, rect)]
    ELSE IF op = kReplace_Op THEN [snap EXCEPT !.clip = rect]
    ELSE [snap EXCEPT !.cx = @ + 1]
clipRect(w, l, t, r, b, op) ==
    [Call(w, "renderer", "clipRect", <<l, t, r, b, op>>)
        EXCEPT !.r = SetTop(@, ClipResult(Top(@),
                        RectTranslate(<<l, t, r, b>>, Top(@).tx, Top(@).ty), op))]
clipPath(w, path, op) ==
    [Call(w, "renderer", "clipPath", <<path, op>>)
        EXCEPT !.r = SetTop(@, [Top(@) EXCEPT !.cx = @ + 1])]
clipRegion(w, region, op) ==
    [Call(w, "renderer", "clipRegion", <<region, op>>)
        EXCEPT !.r = SetTop(@, [Top(@) EXCEPT !.cx = @ + 1])]
\* the remaining state calls and every draw primitive: observed, no modelled state
rendererCall(w, call, args) == Call(w, "renderer", call, args)
\* filterPaint: the paint a draw primitive receives
filterPaint(w, paint) == paint

DrawCalls == {"drawBitmap", "drawBitmapMatrix", "drawBitmapRect", "drawBitmapData",
              "drawBitmapMesh", "drawPatch", "drawColor", "drawRect", "drawRects",
              "drawRoundRect", "drawCircle", "drawOval", "drawArc", "drawPath",
              "drawLines", "drawPoints", "drawTextOnPath", "drawPosText", "drawText",
              "callDrawGLFunction", "drawLayer"}

(* DeferredDisplayList *)
Register(w, call, args) ==
    [Call(w, "batch", call, args)
        EXCEPT !.dl = Append(@, [call |-> call, src |-> w.cur, args |-> args])]
addSave(w, newSaveCount) == Register(w, "addSave", <<newSaveCount>>)
addRestoreToCount(w, newSaveCount) == Register(w, "addRestoreToCount", <<newSaveCount>>)
addSaveLayer(w, newSaveCount) == Register(w, "addSaveLayer", <<newSaveCount>>)
addClip(w) == Register(w, "addClip", <<>>)
\* storeDisplayState: the operation's bounds in the renderer's current transform,
\* cut to the current clip; empty bounds become the clip itself
storeDisplayState(w, bounds) ==
    IF RectIsEmpty(bounds) THEN Top(w.r).clip
    ELSE RectIntersect(RectTranslate(bounds, Top(w.r).tx, Top(w.r).ty), Top(w.r).clip)
\* OpenGLRenderer::findBestFontTransform: the scale of the transform, which
\* is a translation here
findBestFontTransform(w) == Identity
\* DrawOp::onDrawOpDeferred and its overrides; FontRenderer::precache is not a
\* call on the renderer or the batch buffer and is not observed
DrawOp_onDrawOpDeferred(w) == w
DrawSomeTextOp_onDrawOpDeferred(w) == w
DrawTextOp_onDrawOpDeferred(w) ==
    LET transform == findBestFontTransform(w)
    IN IF CurOp(w).mPrecacheTransform # transform
       THEN [w EXCEPT !.lists[w.cur[1]][w.cur[2]].mPrecacheTransform = transform]
       ELSE w
onDrawOpDeferred(w) ==
    CASE CurOp(w).kind = "DrawText" -> DrawTextOp_onDrawOpDeferred(w)
      [] CurOp(w).kind \in {"DrawTextOnPath", "DrawPosText"} ->
            DrawSomeTextOp_onDrawOpDeferred(w)
      [] OTHER -> DrawOp_onDrawOpDeferred(w)
\* addDrawOp stores the display state in the operation and then tells the
\* operation that it has been deferred
addDrawOp(w) ==
    onDrawOpDeferred(
        [Register(w, "addDrawOp", <<>>)
            EXCEPT !.lists[w.cur[1]][w.cur[2]].mBounds = storeDisplayState(w, @)])

-----------------------------------------------------------------------------
(* StateOp::applyState, per concrete class.  uninit is the value read from   *)
(* a member that no constructor initialises.                                 *)

SaveOp_applyState(w, saveCount) == save(w, CurOp(w).args[1])
\* RestoreToCountOp::applyState taking the recorded count as absolute
RestoreToCountOp_applyState_Absolute(w, saveCount) == restoreToCount(w, CurOp(w).args[1])
RestoreToCountOp_applyState(w, saveCount) == restoreToCount(w, saveCount + CurOp(w).args[1])
SaveLayerOp_applyState(w, saveCount) == saveLayer(w, CurOp(w).args)
TranslateOp_applyState(w, saveCount) == translate(w, CurOp(w).args[1], CurOp(w).args[2])
ClipRectOp_applyState(w, saveCount) ==
    LET a == CurOp(w).args IN clipRect(w, a[1], a[2], a[3], a[4], a[5])
ClipPathOp_applyState(w, saveCount) ==
    clipPath(w, CurOp(w).args[1], CurOp(w).args[2])
\* ClipRegionOp declares its own mOp, which hides ClipOp::mOp and is never set
ClipRegionOp_applyState(w, saveCount, uninit) ==
    clipRegion(w, CurOp(w).args[1], uninit)

\* the renderer entry of the state operations that make one plain call
PlainStateCall ==
    [Rotate |-> "rotate", Scale |-> "scale", Skew |-> "skew", SetMatrix |-> "setMatrix",
     ConcatMatrix |-> "concatMatrix", ResetShader |-> "resetShader",
     SetupShader |-> "setupShader", ResetColorFilter |-> "resetColorFilter",
     SetupColorFilter |-> "setupColorFilter", ResetShadow |-> "resetShadow",
     SetupShadow |-> "setupShadow", ResetPaintFilter |-> "resetPaintFilter",
     SetupPaintFilter |-> "setupPaintFilter"]
PlainStateOp_applyState(w, saveCount) ==
    rendererCall(w, PlainStateCall[CurOp(w).kind], CurOp(w).args)

applyState(w, saveCount, uninit) ==
    LET k == CurOp(w).kind IN
    CASE k = "Save" -> SaveOp_applyState(w, saveCount)
      [] k = "RestoreToCount" -> RestoreToCountOp_applyState(w, saveCount)
      [] k = "SaveLayer" -> SaveLayerOp_applyState(w, saveCount)
      [] k = "Translate" -> TranslateOp_applyState(w, saveCount)
      [] k = "ClipRect" -> ClipRectOp_applyState(w, saveCount)
      [] k = "ClipPath" -> ClipPathOp_applyState(w, saveCount)
      [] k = "ClipRegion" -> ClipRegionOp_applyState(w, saveCount, uninit)
      [] OTHER -> PlainStateOp_applyState(w, saveCount)

(* DrawOp::applyDraw, per concrete class: the renderer calls it makes *)
getPaint(w) == filterPaint(w, CurOp(w).mPaint)

DrawPrimitive(w) ==
    LET op == CurOp(w)
        a == op.args
        lb == op.mLocalBounds
        p == getPaint(w)
    IN
    CASE op.kind = "DrawBitmap" -> <<"drawBitmap", <<a[1], lb[1], lb[2], p>>>>
      [] op.kind = "DrawBitmapMatrix" -> <<"drawBitmapMatrix", a \o <<p>>>>
      [] op.kind = "DrawBitmapRect" -> <<"drawBitmapRect", a \o lb \o <<p>>>>
      [] op.kind = "DrawBitmapData" -> <<"drawBitmapData", <<a[1], lb[1], lb[2], p>>>>
      [] op.kind = "DrawBitmapMesh" -> <<"drawBitmapMesh", a \o <<p>>>>
      [] op.kind = "DrawPatch" -> <<"drawPatch", <<a[1]>> \o lb \o <<a[2], a[3]>>>>
      [] op.kind = "DrawColor" -> <<"drawColor", a>>
      [] op.kind = "DrawRect" -> <<"drawRect", lb \o <<p>>>>
      [] op.kind = "DrawRects" -> <<"drawRects", a \o <<p>>>>
      [] op.kind = "DrawRoundRect" -> <<"drawRoundRect", lb \o a \o <<p>>>>
      [] op.kind = "DrawCircle" -> <<"drawCircle", a \o <<p>>>>
      [] op.kind = "DrawOval" -> <<"drawOval", lb \o <<p>>>>
      [] op.kind = "DrawArc" -> <<"drawArc", lb \o a \o <<p>>>>
      [] op.kind = "DrawPath" -> <<"drawPath", a \o <<p>>>>
      [] op.kind = "DrawLines" -> <<"drawLines", a \o <<p>>>>
      [] op.kind = "DrawPoints" -> <<"drawPoints", a \o <<p>>>>
      [] op.kind = "DrawTextOnPath" -> <<"drawTextOnPath", a \o <<p>>>>
      [] op.kind = "DrawPosText" -> <<"drawPosText", a \o <<p>>>>
      [] op.kind = "DrawText" -> <<"drawText", <<a[1], a[2], a[3], a[4], p, a[5]>>>>
      [] op.kind = "DrawLayer" -> <<"drawLayer", a>>

DrawFunctorOp_applyDraw(w, level) ==
    rendererCall(
        rendererCall(rendererCall(w, "startMark", <<>>),
                     "callDrawGLFunction", CurOp(w).args),
        "endMark", <<>>)
\* NOT USED since replay() is overridden: no call, returns kStatusDone
DrawDisplayListOp_applyDraw(w, level) == w

applyDraw(w, level) ==
    CASE CurOp(w).kind = "DrawFunctor" -> DrawFunctorOp_applyDraw(w, level)
      [] CurOp(w).kind = "DrawDisplayList" -> DrawDisplayListOp_applyDraw(w, level)
      [] OTHER -> rendererCall(w, DrawPrimitive(w)[1], DrawPrimitive(w)[2])

\* the status applyDraw returns, st being what the renderer's primitive returned
applyDrawStatus(w, st) ==
    IF CurOp(w).kind = "DrawDisplayList" THEN kStatusDone ELSE st

-----------------------------------------------------------------------------
(* DisplayList, the nested-list collaborator *)

\* isRenderable(): the list has recorded data
isRenderable(w, list) == Len(w.lists[list]) > 0
\* DisplayList::defer / DisplayList::replay (deferStruct | replayStruct, level):
\* the pass continues with the first operation of the nested list
DisplayList_defer(w, list, level) == [w EXCEPT !.enter = list, !.enterLevel = level]
DisplayList_replay(w, list, level) == [w EXCEPT !.enter = list, !.enterLevel = level]

-----------------------------------------------------------------------------
(* defer and replay, per class *)

ClipChildren(w) == BitAnd1(w.flags, kReplayFlag_ClipChildren)

\* StateOp::defer leaving the state change to the flush
StateOp_defer_Later(w, saveCount, level, uninit) == Register(w, "addState", << >>)
\* StateOp::defer registering the operation besides applying it
StateOp_defer_Registers(w, saveCount, level, uninit) ==
    Register(applyState(w, saveCount, uninit), "addState", << >>)
StateOp_defer(w, saveCount, level, uninit) == applyState(w, saveCount, uninit)
StateOp_replay(w, saveCount, level, uninit) == applyState(w, saveCount, uninit)

\* DrawOp::defer clearing the quick-rejection flag of what it hands over
DrawOp_defer_ClearsFlag(w, saveCount, level) ==
    IF CurOp(w).mQuickRejected /\ ClipChildren(w) THEN w
    ELSE LET lb == getLocalBounds(CurOp(w), CurOp(w).mBounds)
             w1 == [w EXCEPT !.lists[w.cur[1]][w.cur[2]].mBounds =
                                IF lb.ok THEN lb.rect ELSE EmptyRect,
                             !.lists[w.cur[1]][w.cur[2]].mQuickRejected = FALSE]
         IN addDrawOp(w1)

\* DrawOp::defer without the quick-rejection test
DrawOp_defer_NoReject(w, saveCount, level) ==
    LET lb == getLocalBounds(CurOp(w), CurOp(w).mBounds)
        w1 == [w EXCEPT !.lists[w.cur[1]][w.cur[2]].mBounds =
                           IF lb.ok THEN lb.rect ELSE EmptyRect]
    IN addDrawOp(w1)

\* DrawOp::defer drawing at once, besides handing the operation over
DrawOp_defer_DrawsNow(w, saveCount, level) ==
    IF CurOp(w).mQuickRejected /\ ClipChildren(w) THEN w
    ELSE LET lb == getLocalBounds(CurOp(w), CurOp(w).mBounds)
             w1 == [w EXCEPT !.lists[w.cur[1]][w.cur[2]].mBounds =
                                IF lb.ok THEN lb.rect ELSE EmptyRect]
         IN applyDraw(addDrawOp(w1), level)

\* DrawOp::defer without setEmpty for operations that have no bounds
DrawOp_defer_NoSetEmpty(w, saveCount, level) ==
    IF CurOp(w).mQuickRejected /\ ClipChildren(w) THEN w
    ELSE LET lb == getLocalBounds(CurOp(w), CurOp(w).mBounds)
             w1 == [w EXCEPT !.lists[w.cur[1]][w.cur[2]].mBounds = lb.rect]
         IN addDrawOp(w1)

DrawOp_defer(w, saveCount, level) ==
    IF CurOp(w).mQuickRejected /\ ClipChildren(w) THEN w
    ELSE LET lb == getLocalBounds(CurOp(w), CurOp(w).mBounds)
             w1 == [w EXCEPT !.lists[w.cur[1]][w.cur[2]].mBounds =
                                IF lb.ok THEN lb.rect ELSE EmptyRect]
         IN addDrawOp(w1)

\* DrawOp::replay marking the operation it has drawn as rejected
DrawOp_replay_Marks(w, saveCount, level, st) ==
    IF CurOp(w).mQuickRejected /\ ClipChildren(w) THEN w
    ELSE [applyDraw(w, level) EXCEPT !.status = BitOr(@, applyDrawStatus(w, st)),
                                     !.ret = <<applyDrawStatus(w, st)>>,
                                     !.lists[w.cur[1]][w.cur[2]].mQuickRejected = TRUE]

\* DrawOp::replay skipping a quick-rejected operation whatever the replay flags
DrawOp_replay_AnyFlags(w, saveCount, level, st) ==
    IF CurOp(w).mQuickRejected THEN w
    ELSE [applyDraw(w, level) EXCEPT !.status = BitOr(@, applyDrawStatus(w, st)),
                                     !.ret = <<applyDrawStatus(w, st)>>]

\* DrawOp::replay assigning the status instead of or-ing it in
DrawOp_replay_Assign(w, saveCount, level, st) ==
    IF CurOp(w).mQuickRejected /\ ClipChildren(w) THEN w
    ELSE [applyDraw(w, level) EXCEPT !.status = applyDrawStatus(w, st),
                                     !.ret = <<applyDrawStatus(w, st)>>]

DrawOp_replay(w, saveCount, level, st) ==
    IF CurOp(w).mQuickRejected /\ ClipChildren(w) THEN w
    ELSE [applyDraw(w, level) EXCEPT !.status = BitOr(@, applyDrawStatus(w, st)),
                                     !.ret = <<applyDrawStatus(w, st)>>]

\* SaveOp::defer registering the baseline it was handed
SaveOp_defer_Baseline(w, saveCount, level) ==
    addSave(save(w, CurOp(w).args[1]), saveCount)
SaveOp_defer(w, saveCount, level) ==
    LET newSaveCount == getSaveCount(w)   \* the value renderer.save returns
    IN addSave(save(w, CurOp(w).args[1]), newSaveCount)

\* RestoreToCountOp::defer counting from the nesting level
RestoreToCountOp_defer_Level(w, saveCount, level) ==
    restoreToCount(addRestoreToCount(w, saveCount + level + CurOp(w).args[1]),
                   saveCount + level + CurOp(w).args[1])

\* RestoreToCountOp::defer restoring before it registers
RestoreToCountOp_defer_RestoreFirst(w, saveCount, level) ==
    addRestoreToCount(restoreToCount(w, saveCount + CurOp(w).args[1]),
                      saveCount + CurOp(w).args[1])
RestoreToCountOp_defer(w, saveCount, level) ==
    restoreToCount(addRestoreToCount(w, saveCount + CurOp(w).args[1]),
                   saveCount + CurOp(w).args[1])

\* SaveLayerOp::defer issuing the real saveLayer
SaveLayerOp_defer_Real(w, saveCount, level) ==
    LET newSaveCount == getSaveCount(w)
    IN saveLayer(addSaveLayer(w, newSaveCount), CurOp(w).args)

SaveLayerOp_defer(w, saveCount, level) ==
    LET newSaveCount == getSaveCount(w)
    IN saveLayerDeferred(addSaveLayer(w, newSaveCount), CurOp(w).args)

\* ClipOp::defer applying the clip before it registers
ClipOp_defer_ApplyFirst(w, saveCount, level, uninit) ==
    addClip(applyState(w, saveCount, uninit))
ClipOp_defer(w, saveCount, level, uninit) == applyState(addClip(w), saveCount, uninit)

\* DrawDisplayListOp::defer without the isRenderable test
DrawDisplayListOp_defer_Unchecked(w, saveCount, level) ==
    IF CurOp(w).mDisplayList # NullList
    THEN DisplayList_defer(w, CurOp(w).mDisplayList, level + 1)
    ELSE w

DrawDisplayListOp_defer(w, saveCount, level) ==
    IF CurOp(w).mDisplayList # NullList /\ isRenderable(w, CurOp(w).mDisplayList)
    THEN DisplayList_defer(w, CurOp(w).mDisplayList, level + 1)
    ELSE w

\* DrawDisplayListOp::replay with DrawOp's quick-rejection test in front
DrawDisplayListOp_replay_Rejects(w, saveCount, level) ==
    IF CurOp(w).mQuickRejected /\ ClipChildren(w) THEN w
    ELSE IF CurOp(w).mDisplayList # NullList /\ isRenderable(w, CurOp(w).mDisplayList)
    THEN DisplayList_replay(w, CurOp(w).mDisplayList, level + 1)
    ELSE w
DrawDisplayListOp_replay(w, saveCount, level) ==
    IF CurOp(w).mDisplayList # NullList /\ isRenderable(w, CurOp(w).mDisplayList)
    THEN DisplayList_replay(w, CurOp(w).mDisplayList, level + 1)
    ELSE w

\* virtual dispatch of op->defer(deferStruct, saveCount, level)
defer(w, saveCount, level, uninit) ==
    LET k == CurOp(w).kind IN
    CASE k = "Save" -> SaveOp_defer(w, saveCount, level)
      [] k = "RestoreToCount" -> RestoreToCountOp_defer(w, saveCount, level)
      [] k = "SaveLayer" -> SaveLayerOp_defer(w, saveCount, level)
      [] k \in ClipKinds -> ClipOp_defer(w, saveCount, level, uninit)
      [] k = "DrawDisplayList" -> DrawDisplayListOp_defer(w, saveCount, level)
      [] k \in DrawKinds \ {"DrawDisplayList"} -> DrawOp_defer(w, saveCount, level)
      [] OTHER -> StateOp_defer(w, saveCount, level, uninit)

\* virtual dispatch of op->replay(replayStruct, saveCount, level)
replay(w, saveCount, level, st, uninit) ==
    LET k == CurOp(w).kind IN
    CASE k = "DrawDisplayList" -> DrawDisplayListOp_replay(w, saveCount, level)
      [] k \in DrawKinds \ {"DrawDisplayList"} -> DrawOp_replay(w, saveCount, level, st)
      [] OTHER -> StateOp_replay(w, saveCount, level, uninit)

-----------------------------------------------------------------------------
(* The operations a caller records *)

Viewport == <<0, 0, 100, 100>>
\* renderer save-counts a pass may start from: a fresh renderer, or one inside a save
InitSaveCounts == {1, 2}

\* the nested lists: 2 holds two compositions of 3, 4 is empty (not renderable),
\* 5 runs a functor and then draws
NestedLists ==
    [n \in 2..5 |->
        CASE n = 2 -> << SaveOp(1),
                         DrawDisplayListOp(<<3, 10, 10>>, 0),
                         ClipRectOp(5, 5, 40, 40, kIntersect_Op),
                         setQuickRejected(DrawDisplayListOp(<<3, 10, 10>>, 0), TRUE),
                         RestoreToCountOp(1) >>
          [] n = 3 -> << DrawColorOp(5, 3),
                         setQuickRejected(DrawRectOp(1, 1, 5, 5, 2), TRUE),
                         RestoreToCountOp(2) >>
          [] n = 4 -> << >>
          [] n = 5 -> << DrawFunctorOp(1), DrawColorOp(9, 3) >>]

CoreOps == { SaveOp(1), TranslateOp(10, 20), DrawRectOp(0, 0, 50, 50, 1),
             RestoreToCountOp(1) }

AllOps == CoreOps \cup {
    RestoreToCountOp(2), SaveLayerOp(0, 0, 20, 20, 128, 3, 1),
    RotateOp(90), ScaleOp(2, 2), SkewOp(1, 0), SetMatrixOp(1), ConcatMatrixOp(1),
    ClipRectOp(10, 10, 30, 30, kIntersect_Op), ClipRectOp(10, 10, 30, 30, 2),
    ClipPathOp(1, kIntersect_Op), ClipRegionOp(1, kReplace_Op),
    ResetShaderOp, SetupShaderOp(1), ResetColorFilterOp, SetupColorFilterOp(1),
    ResetShadowOp, SetupShadowOp(2, 1, 1, 9), ResetPaintFilterOp, SetupPaintFilterOp(1, 2),
    DrawBitmapOp(1, 3, 4, 1), DrawBitmapMatrixOp(1, <<2, 2>>, 1),
    DrawBitmapRectOp(1, <<0, 0, 4, 4>>, <<1, 1, 9, 9>>, 1), DrawBitmapDataOp(1, 3, 4, 1),
    DrawBitmapMeshOp(1, 1, 0, <<4, 7, 2, 9>>, 1), DrawPatchOp(1, 0, 0, 6, 6, 255, 3),
    DrawColorOp(5, 3), DrawRectOp(0, 0, 50, 50, 2), DrawRectOp(0, 0, 50, 50, NullPaint),
    DrawRectsOp(<<1, 2, 5, 6>>, 4, 1), DrawRoundRectOp(0, 0, 8, 8, 1, 1, 2),
    DrawCircleOp(10, 10, 4, 1), DrawOvalOp(0, 0, 8, 4, 2), DrawArcOp(0, 0, 8, 8, 0, 90, 1, 1),
    DrawPathOp(1, 1), DrawLinesOp(<<5, 1, 2, 8>>, 4, 2), DrawPointsOp(<<5, 1>>, 2, 1),
    DrawTextOnPathOp(3, 3, 1, 0, 0, 1), DrawPosTextOp(3, 3, 2), DrawTextOp(3, 3, 10, 20, 1, 6),
    DrawFunctorOp(1), DrawLayerOp(1, 2, 3),
    DrawDisplayListOp(<<NullList, 0, 0>>, 0), DrawDisplayListOp(<<4, 0, 0>>, 0),
    DrawDisplayListOp(<<2, 40, 40>>, 0), DrawDisplayListOp(<<5, 20, 20>>, 0) }

Root == 1
Frame(list, pc, level) == [list |-> list, pc |-> pc, level |-> level]
TopFrame == stack[Len(stack)]
AtOp == TopFrame.pc <= Len(lists[TopFrame.list])
Current == lists[TopFrame.list][TopFrame.pc]

\* the collaborators as the operation at position cur sees them
WorldAt(cur) ==
    [r |-> renderer, log |-> log, dl |-> mDeferredList, status |-> mDrawGlStatus,
     lists |-> lists, flags |-> mReplayFlags, cur |-> cur, ret |-> NoStatus,
     enter |-> NullList, enterLevel |-> 0]
World == WorldAt(<<TopFrame.list, TopFrame.pc>>)

\* what a step leaves behind; the frame moves on and a nested list is entered
Commit(w) ==
    /\ renderer' = w.r
    /\ log' = w.log
    /\ mDeferredList' = w.dl
    /\ mDrawGlStatus' = w.status
    /\ ret' = w.ret
    /\ lists' = w.lists
    /\ stack' = LET moved == [stack EXCEPT ![Len(stack)].pc = @ + 1]
                IN IF w.enter = NullList THEN moved
                   ELSE Append(moved, Frame(w.enter, 1, w.enterLevel))

\* no first replay has been kept; no operation is under construction
NoFirst == [kept |-> FALSE, inputs |-> << >>]
NoProbe == [stage |-> "none"]

InitPass ==
    /\ lists = [n \in 1..5 |-> IF n = Root THEN << >> ELSE NestedLists[n]]
    /\ mode = "record"
    /\ via = "none"
    /\ stack = << >>
    /\ renderer \in {[i \in 1..n |-> Snapshot(Viewport, 0, 0, 0)] : n \in InitSaveCounts}
    /\ log = << >>
    /\ mDeferredList = << >>
    /\ fpc = 1
    /\ mDrawGlStatus = kStatusDone
    /\ mReplayFlags = 0
    /\ baseline = 0
    /\ startCount = 0
    /\ ret = NoStatus
    /\ first = NoFirst

Init == InitPass /\ probe = NoProbe

\* the recorder appends a newly constructed operation to the root list
RecordOp(op) ==
    /\ mode = "record"
    /\ \/ Len(lists[Root]) < MaxOpsAll
       \/ /\ Len(lists[Root]) < MaxOpsCore
          /\ op \in CoreOps
          /\ \A i \in 1..Len(lists[Root]) :
                setQuickRejected(lists[Root][i], FALSE) \in CoreOps
    /\ lists' = [lists EXCEPT ![Root] = Append(@, op)]
    /\ UNCHANGED <<mode, via, stack, renderer, log, mDeferredList, fpc,
                   mDrawGlStatus, mReplayFlags, baseline, startCount, ret, first, probe>>

\* the recorder's visibility test marks the draw operation it has just added
SetQuickRejected ==
    /\ mode = "record"
    /\ Len(lists[Root]) > 0
    /\ Len(lists[Root]) <= MaxOpsAll
    /\ IsDrawOp(lists[Root][Len(lists[Root])])
    /\ ~lists[Root][Len(lists[Root])].mQuickRejected
    /\ lists' = [lists EXCEPT ![Root][Len(lists[Root])] = setQuickRejected(@, TRUE)]
    /\ UNCHANGED <<mode, via, stack, renderer, log, mDeferredList, fpc,
                   mDrawGlStatus, mReplayFlags, baseline, startCount, ret, first, probe>>

\* the root list starts a pass: every operation is handed the same saveCount
StartPass(pass, flags) ==
    /\ mode = "record"
    /\ mode' = pass
    /\ via' = pass
    /\ mReplayFlags' = flags
    /\ baseline' = Len(renderer) - 1
    /\ startCount' = Len(renderer)
    /\ stack' = << Frame(Root, 1, 0) >>
    /\ UNCHANGED <<lists, renderer, log, mDeferredList, fpc, mDrawGlStatus, ret,
                   first, probe>>

StartReplay(flags) == StartPass("replay", flags)
StartDefer(flags) == StartPass("defer", flags)

NeedsStatus(op) == IsDrawOp(op) /\ op.kind # "DrawDisplayList"
\* what the renderer entry an operation draws with may return
StatusesOf(op) ==
    IF op.kind = "DrawFunctor" THEN {kStatusDone, kStatusDraw, kStatusInvoke}
    ELSE IF NeedsStatus(op) THEN {kStatusDone, kStatusDrew}
    ELSE {kStatusDone}
NeedsUninit(op) == op.kind = "ClipRegion"

\* DisplayList::replay, one operation: st is what the renderer returns to it,
\* uninit what it finds in a member that was never initialised
ReplayOne(st, uninit) ==
    /\ mode = "replay"
    /\ AtOp
    /\ st \in StatusesOf(Current)
    /\ NeedsUninit(Current) \/ uninit = kIntersect_Op
    /\ Commit(replay(World, baseline, TopFrame.level, st, uninit))
    /\ UNCHANGED <<mode, via, fpc, mReplayFlags, baseline, startCount, probe>>

ReplayStep(st, uninit) == ReplayOne(st, uninit) /\ UNCHANGED first

\* DisplayList::defer, one operation
DeferStep(uninit) ==
    /\ mode = "defer"
    /\ AtOp
    /\ NeedsUninit(Current) \/ uninit = kIntersect_Op
    /\ Commit(defer(World, baseline, TopFrame.level, uninit))
    /\ UNCHANGED <<mode, via, fpc, mReplayFlags, baseline, startCount, first, probe>>

\* a nested list is exhausted: its caller continues
ReturnFromList ==
    /\ mode \in {"replay", "defer"}
    /\ ~AtOp
    /\ Len(stack) > 1
    /\ stack' = SubSeq(stack, 1, Len(stack) - 1)
    /\ UNCHANGED <<lists, mode, via, renderer, log, mDeferredList, fpc,
                   mDrawGlStatus, mReplayFlags, baseline, startCount, ret, first, probe>>

\* the root list is exhausted: replay is over, a defer pass is followed by its flush
FinishPass ==
    /\ mode \in {"replay", "defer"}
    /\ ~AtOp
    /\ Len(stack) = 1
    /\ stack' = << >>
    /\ mode' = IF mode = "defer" THEN "flush" ELSE "done"
    /\ UNCHANGED <<lists, via, renderer, log, mDeferredList, fpc,
                   mDrawGlStatus, mReplayFlags, baseline, startCount, ret, first, probe>>

\* DeferredDisplayList::flush, one registered record: saves, layers and restores
\* are issued for real, draw operations are drawn, clips live in the stored state
FlushRecord(w, rec, st) ==
    CASE rec.call = "addSave" -> SaveOp_applyState(w, 0)
      [] rec.call = "addSaveLayer" -> SaveLayerOp_applyState(w, 0)
      [] rec.call = "addRestoreToCount" -> restoreToCount(w, rec.args[1])
      [] rec.call = "addDrawOp" ->
            [applyDraw(w, 0) EXCEPT !.status = BitOr(@, applyDrawStatus(w, st)),
                                    !.ret = <<applyDrawStatus(w, st)>>]
      [] OTHER -> w

FlushStep(st) ==
    /\ mode = "flush"
    /\ fpc <= Len(mDeferredList)
    /\ st \in (IF mDeferredList[fpc].call = "addDrawOp"
                THEN StatusesOf(lists[mDeferredList[fpc].src[1]][mDeferredList[fpc].src[2]])
                ELSE {kStatusDone})
    /\ LET rec == mDeferredList[fpc]
           w == FlushRecord(WorldAt(rec.src), rec, st)
       IN /\ renderer' = w.r
          /\ log' = w.log
          /\ mDrawGlStatus' = w.status
          /\ ret' = w.ret
    /\ fpc' = fpc + 1
    /\ UNCHANGED <<lists, mode, via, stack, mDeferredList, mReplayFlags, baseline,
                   startCount, first, probe>>

FinishFlush ==
    /\ mode = "flush"
    /\ fpc > Len(mDeferredList)
    /\ mode' = "done"
    /\ UNCHANGED <<lists, via, stack, renderer, log, mDeferredList, fpc,
                   mDrawGlStatus, mReplayFlags, baseline, startCount, ret, first, probe>>

Next ==
    \/ \E op \in AllOps : RecordOp(op)
    \/ SetQuickRejected
    \/ \E flags \in {0, kReplayFlag_ClipChildren} : StartReplay(flags)
    \/ \E flags \in {0, kReplayFlag_ClipChildren} : StartDefer(flags)
    \/ \E st \in StatusValues, uninit \in RegionOps : ReplayStep(st, uninit)
    \/ \E uninit \in RegionOps : DeferStep(uninit)
    \/ ReturnFromList
    \/ FinishPass
    \/ \E st \in StatusValues : FlushStep(st)
    \/ FinishFlush

Spec == Init /\ [][Next]_vars

-----------------------------------------------------------------------------
(* The same list replayed twice.  The second replay starts from the renderer *)
(* state the first one started from; the renderer answers, and the memory of *)
(* a member that was never initialised holds, what they did the first time.  *)

\* a step of the first replay; its inputs are kept
FirstReplayStep(st, uninit) ==
    /\ ~first.kept
    /\ ReplayOne(st, uninit)
    /\ first' = [first EXCEPT !.inputs = Append(@, <<st, uninit>>)]

\* the first replay is over: keep what it did and start again
ReplayAgain ==
    /\ mode = "done"
    /\ via = "replay"
    /\ ~first.kept
    /\ first' = [kept |-> TRUE, inputs |-> first.inputs, n |-> 1, log |-> log,
                 status |-> mDrawGlStatus, renderer |-> renderer, lists |-> lists]
    /\ renderer' = [i \in 1..startCount |-> Snapshot(Viewport, 0, 0, 0)]
    /\ log' = << >>
    /\ mDrawGlStatus' = kStatusDone
    /\ ret' = NoStatus
    /\ mode' = "replay"
    /\ stack' = << Frame(Root, 1, 0) >>
    /\ UNCHANGED <<lists, via, mDeferredList, fpc, mReplayFlags, baseline, startCount,
                   probe>>

\* a step of the second replay, with the inputs of the same step of the first
SecondReplayStep(st, uninit) ==
    /\ first.kept
    /\ first.n <= Len(first.inputs) => <<st, uninit>> = first.inputs[first.n]
    /\ ReplayOne(st, uninit)
    /\ first' = [first EXCEPT !.n = @ + 1]

NextTwice ==
    \/ \E op \in AllOps : RecordOp(op)
    \/ SetQuickRejected
    \/ \E flags \in {0, kReplayFlag_ClipChildren} : StartReplay(flags)
    \/ \E st \in StatusValues, uninit \in RegionOps : FirstReplayStep(st, uninit)
    \/ \E st \in StatusValues, uninit \in RegionOps : SecondReplayStep(st, uninit)
    \/ ReturnFromList
    \/ FinishPass
    \/ ReplayAgain

SpecTwice == Init /\ [][NextTwice]_vars

-----------------------------------------------------------------------------
(* One draw operation constructed from its arguments, marked by the          *)
(* recorder's visibility test, and asked for its batch id.                   *)

\* the operations whose bounds come from a list of points
PointKinds == {"DrawRects", "DrawLines", "DrawPoints", "DrawBitmapMesh"}
Coords == {1, 5, 9}
\* coordinate arrays x0, y0, x1, y1, ... of up to MaxPoints points
PointLists == UNION {[1..2 * n -> Coords] : n \in 0..MaxPoints}
ProbeRects == {<<0, 0, 50, 50>>, <<60, 70, 80, 90>>}
\* what the memory behind an empty coordinate array may hold
Garbage == {-3, 77}

\* the paint pointers a caller passes: a paint, or null
ProbePaints == {NullPaint} \cup (1..Len(Paints))
\* the classes whose constructor dereferences the paint it is given:
\* DrawLinesOp (and DrawPointsOp) through strokeWidthOutset, DrawTextOp
\* through getFontMetrics and getTextAlign
CtorReadsPaint(kind) == kind \in {"DrawLines", "DrawPoints", "DrawText"}

ProbeInputs ==
    {[stage |-> "input", kind |-> k, paint |-> p, rect |-> <<0, 0, 50, 50>>, points |-> pts] :
        k \in PointKinds, p \in ProbePaints, pts \in PointLists}
    \cup
    {[stage |-> "input", kind |-> k, paint |-> p, rect |-> r, points |-> << >>] :
        k \in DrawKinds \ PointKinds, p \in ProbePaints, r \in ProbeRects}

\* new (alloc()) <kind>Op(...): points is the memory the coordinate pointer
\* refers to, count the number of coordinates the caller says it holds
New(kind, paint, rect, points, count) ==
    CASE kind = "DrawBitmap" -> DrawBitmapOp(1, rect[1], rect[2], paint)
      [] kind = "DrawBitmapMatrix" -> DrawBitmapMatrixOp(1, <<rect[1], rect[2]>>, paint)
      [] kind = "DrawBitmapRect" -> DrawBitmapRectOp(1, <<0, 0, 4, 4>>, rect, paint)
      [] kind = "DrawBitmapData" -> DrawBitmapDataOp(1, rect[1], rect[2], paint)
      [] kind = "DrawBitmapMesh" ->
            DrawBitmapMeshOp(1, (count \div 2) - 1, 0, points, paint)
      [] kind = "DrawPatch" -> DrawPatchOp(1, rect[1], rect[2], rect[3], rect[4], 255, 3)
      [] kind = "DrawColor" -> DrawColorOp(5, 3)
      [] kind = "DrawRect" -> DrawRectOp(rect[1], rect[2], rect[3], rect[4], paint)
      [] kind = "DrawRects" -> DrawRectsOp(points, count, paint)
      [] kind = "DrawRoundRect" ->
            DrawRoundRectOp(rect[1], rect[2], rect[3], rect[4], 1, 1, paint)
      [] kind = "DrawCircle" -> DrawCircleOp(rect[3], rect[4], 4, paint)
      [] kind = "DrawOval" -> DrawOvalOp(rect[1], rect[2], rect[3], rect[4], paint)
      [] kind = "DrawArc" -> DrawArcOp(rect[1], rect[2], rect[3], rect[4], 0, 90, 1, paint)
      [] kind = "DrawPath" -> DrawPathOp(1, paint)
      [] kind = "DrawLines" -> DrawLinesOp(points, count, paint)
      [] kind = "DrawPoints" -> DrawPointsOp(points, count, paint)
      [] kind = "DrawTextOnPath" -> DrawTextOnPathOp(3, 3, 1, 0, 0, paint)
      [] kind = "DrawPosText" -> DrawPosTextOp(3, 3, paint)
      [] kind = "DrawText" -> DrawTextOp(3, 3, rect[1], rect[2], paint, 6)
      [] kind = "DrawFunctor" -> DrawFunctorOp(1)
      [] kind = "DrawDisplayList" -> DrawDisplayListOp(<<4, rect[3], rect[4]>>, 0)
      [] kind = "DrawLayer" -> DrawLayerOp(1, rect[1], rect[2])

passVars == <<lists, mode, via, stack, renderer, log, mDeferredList, fpc,
              mDrawGlStatus, mReplayFlags, baseline, startCount, ret, first>>

\* the constructor runs.  From an empty array DrawBoundedOp's constructor still
\* reads points[0] and points[1]: it finds g0 and g1 there.  base is
\* mLocalBounds as DrawBoundedOp's constructor leaves it, before the body of the
\* subclass constructor runs.
ConstructOp(g0, g1) ==
    /\ probe.stage = "input"
    /\ ~(CtorReadsPaint(probe.kind) /\ probe.paint = NullPaint)
    /\ (probe.kind \notin PointKinds \/ probe.points # << >>) => (g0 = -3 /\ g1 = -3)
    /\ LET memory == IF probe.kind \in PointKinds /\ probe.points = << >>
                     THEN <<g0, g1>> ELSE probe.points
           count == Len(probe.points)
           op == New(probe.kind, probe.paint, probe.rect, memory, count)
       IN probe' = [stage |-> "built", kind |-> probe.kind, paint |-> probe.paint,
                    rect |-> probe.rect, points |-> probe.points, op |-> op,
                    base |-> IF probe.kind \in PointKinds
                             THEN DrawBoundedOpPoints(probe.kind, << >>, memory, count,
                                                      probe.paint).mLocalBounds
                             ELSE op.mLocalBounds]
    /\ UNCHANGED passVars

\* the read behind an empty array faults, and so does a constructor that
\* dereferences a null paint
ConstructFaults ==
    /\ probe.stage = "input"
    /\ \/ probe.kind \in PointKinds /\ probe.points = << >>
       \/ CtorReadsPaint(probe.kind) /\ probe.paint = NullPaint
    /\ probe' = [probe EXCEPT !.stage = "fault"]
    /\ UNCHANGED passVars

\* the recorder's visibility test marks the operation
MarkRejected ==
    /\ probe.stage = "built"
    /\ ~probe.op.mQuickRejected
    /\ probe' = [probe EXCEPT !.op = setQuickRejected(@, TRUE)]
    /\ UNCHANGED passVars

\* the batch buffer asks the operation for its batch id
AskBatchId ==
    /\ probe.stage = "built"
    /\ BatchIdReadsPaint(probe.op) => probe.op.mPaint # NullPaint
    /\ probe' = [stage |-> "classified", kind |-> probe.kind, paint |-> probe.paint,
                 rect |-> probe.rect, points |-> probe.points, op |-> probe.op,
                 base |-> probe.base, batchId |-> getBatchId(probe.op)]
    /\ UNCHANGED passVars

\* getBatchId dereferences the null paint of the operation: the call faults
AskBatchIdFaults ==
    /\ probe.stage = "built"
    /\ BatchIdReadsPaint(probe.op)
    /\ probe.op.mPaint = NullPaint
    /\ probe' = [probe EXCEPT !.stage = "fault"]
    /\ UNCHANGED passVars

InitOps == InitPass /\ probe \in ProbeInputs

NextOps ==
    \/ \E g0, g1 \in Garbage : ConstructOp(g0, g1)
    \/ ConstructFaults
    \/ MarkRejected
    \/ AskBatchId
    \/ AskBatchIdFaults

SpecOps == InitOps /\ [][NextOps]_vars

-----------------------------------------------------------------------------
(* One state operation that its owner reuses: it is reinitialised with new   *)
(* parameters and then takes part in a pass; a clip operation is asked       *)
(* whether it can make the clip complex; an operation is destroyed.          *)

\* the private default constructors SaveOp(), RestoreToCountOp(),
\* SaveLayerOp(), ClipRectOp(): no member is initialised, each holds uninit
ReinitKinds == {"Save", "RestoreToCount", "SaveLayer", "ClipRect"}
ParamCount == [Save |-> 1, RestoreToCount |-> 1, SaveLayer |-> 7, ClipRect |-> 5]
DefaultOp(kind, uninit) == StateOp(kind, [i \in 1..ParamCount[kind] |-> uninit])

\* reinit, per class
SaveOp_reinit(op, flags) == [op EXCEPT !.args[1] = flags]
RestoreToCountOp_reinit(op, count) == [op EXCEPT !.args[1] = count]
SaveLayerOp_reinit(op, l, t, r, b, alpha, xmode, flags) ==
    [op EXCEPT !.args[1] = l, !.args[2] = t, !.args[3] = r, !.args[4] = b,
               !.args[5] = alpha, !.args[6] = xmode, !.args[7] = flags]
\* ClipRectOp::reinit leaving the set operation as it was
ClipRectOp_reinit_KeepsOp(op, l, t, r, b, rop) ==
    [op EXCEPT !.args[1] = l, !.args[2] = t, !.args[3] = r, !.args[4] = b]
ClipRectOp_reinit(op, l, t, r, b, rop) ==
    [op EXCEPT !.args[5] = rop,
               !.args[1] = l, !.args[2] = t, !.args[3] = r, !.args[4] = b]
reinit(op, p) ==
    CASE op.kind = "Save" -> SaveOp_reinit(op, p[1])
      [] op.kind = "RestoreToCount" -> RestoreToCountOp_reinit(op, p[1])
      [] op.kind = "SaveLayer" ->
            SaveLayerOp_reinit(op, p[1], p[2], p[3], p[4], p[5], p[6], p[7])
      [] op.kind = "ClipRect" -> ClipRectOp_reinit(op, p[1], p[2], p[3], p[4], p[5])
\* the public constructors of the same classes
Construct(kind, p) ==
    CASE kind = "Save" -> SaveOp(p[1])
      [] kind = "RestoreToCount" -> RestoreToCountOp(p[1])
      [] kind = "SaveLayer" -> SaveLayerOp(p[1], p[2], p[3], p[4], p[5], p[6], p[7])
      [] kind = "ClipRect" -> ClipRectOp(p[1], p[2], p[3], p[4], p[5])

\* ClipOp::isRect and its override
ClipOp_isRect(op) == FALSE
ClipRectOp_isRect(op) == TRUE
isRect(op) == IF op.kind = "ClipRect" THEN ClipRectOp_isRect(op) ELSE ClipOp_isRect(op)
\* ClipOp::mOp
ClipOp_mOp(op) == op.args[Len(op.args)]
\* ClipOp::canCauseComplexClip looking at the set operation only
ClipOp_canCauseComplexClip_OpOnly(op) ==
    ClipOp_mOp(op) # kIntersect_Op /\ ClipOp_mOp(op) # kReplace_Op
ClipOp_canCauseComplexClip(op) ==
    (ClipOp_mOp(op) # kIntersect_Op /\ ClipOp_mOp(op) # kReplace_Op) \/ ~isRect(op)

\* CRASH() returning to its caller
CRASH_Returns(m) == m
\* CRASH(): the process traps
CRASH(m) == "trapped"
\* ~DisplayListOp() and DisplayListOp::operator delete
DisplayListOp_destructor(m) == CRASH(m)
DisplayListOp_operator_delete(m) == CRASH(m)

\* the parameters an owner passes to a constructor or to reinit
Params ==
    [Save |-> {<<1>>, <<3>>},
     RestoreToCount |-> {<<0>>, <<1>>},
     SaveLayer |-> {<<0, 0, 20, 20, 128, 3, 1>>, <<5, 5, 30, 30, 255, 1, 3>>},
     ClipRect |-> {<<r[1], r[2], r[3], r[4], rop>> :
                      r \in {<<10, 10, 30, 30>>, <<0, 5, 60, 40>>}, rop \in RegionOps}]
NotAsked == << >>
ReuseInputs ==
    UNION {
      {[stage |-> "old", op |-> o, p |-> p, defaulted |-> FALSE, complex |-> NotAsked,
        destroyed |-> FALSE] : o \in {Construct(k, q) : q \in Params[k]}, p \in Params[k]}
      \cup
      {[stage |-> "old", op |-> DefaultOp(k, u), p |-> p, defaulted |-> TRUE,
        complex |-> NotAsked, destroyed |-> FALSE] : u \in Garbage, p \in Params[k]}
      : k \in ReinitKinds}
    \cup
    {[stage |-> "old", op |-> o, p |-> << >>, defaulted |-> FALSE, complex |-> NotAsked,
      destroyed |-> FALSE] :
        o \in {ClipPathOp(1, rop) : rop \in RegionOps}
               \cup {ClipRegionOp(1, rop) : rop \in RegionOps}}

reuseVars == <<via, stack, renderer, log, mDeferredList, fpc,
               mDrawGlStatus, mReplayFlags, baseline, startCount, ret, first>>

\* the owner reinitialises the operation and puts it in the root list
ReinitOp ==
    /\ mode = "record"
    /\ probe.stage = "old"
    /\ probe.op.kind \in ReinitKinds
    /\ probe' = [probe EXCEPT !.stage = "reinit", !.op = reinit(@, probe.p),
                              !.complex = NotAsked]
    /\ lists' = [lists EXCEPT ![Root] = <<reinit(probe.op, probe.p)>>]
    /\ UNCHANGED mode
    /\ UNCHANGED reuseVars

\* the batch buffer asks a clip operation whose mOp has been set
AskComplexClip ==
    /\ mode = "record"
    /\ probe.op.kind \in ClipKinds
    /\ probe.stage = "reinit" \/ ~probe.defaulted
    /\ probe.complex = NotAsked
    /\ probe' = [probe EXCEPT !.complex = <<ClipOp_canCauseComplexClip(probe.op)>>]
    /\ UNCHANGED <<lists, mode>>
    /\ UNCHANGED reuseVars

\* a pass over the reinitialised operation
ReusePass(pass, flags) ==
    /\ probe.stage = "reinit"
    /\ StartPass(pass, flags)

\* someone destroys or deletes the operation
DestroyOp(how) ==
    /\ mode \in {"record", "replay", "defer", "flush", "done"}
    /\ mode' = IF how = "delete" THEN DisplayListOp_operator_delete(mode)
               ELSE DisplayListOp_destructor(mode)
    /\ probe' = [probe EXCEPT !.destroyed = TRUE]
    /\ UNCHANGED lists
    /\ UNCHANGED reuseVars

\* the arena is discarded after the pass: every operation goes at once, no
\* destructor runs
DiscardArena ==
    /\ mode = "done"
    /\ mode' = "discarded"
    /\ lists' = [lists EXCEPT ![Root] = << >>]
    /\ probe' = [probe EXCEPT !.stage = "discarded"]
    /\ UNCHANGED reuseVars

InitReuse == InitPass /\ probe \in ReuseInputs

NextReuse ==
    \/ ReinitOp
    \/ AskComplexClip
    \/ \E pass \in {"replay", "defer"}, flags \in {0, kReplayFlag_ClipChildren} :
          ReusePass(pass, flags)
    \/ \E st \in StatusValues, uninit \in RegionOps : ReplayStep(st, uninit)
    \/ \E uninit \in RegionOps : DeferStep(uninit)
    \/ FinishPass
    \/ \E st \in StatusValues : FlushStep(st)
    \/ FinishFlush
    \/ \E how \in {"destructor", "delete"} : DestroyOp(how)
    \/ DiscardArena

SpecReuse == InitReuse /\ [][NextReuse]_vars

-----------------------------------------------------------------------------
(* Vocabulary of the properties *)

\* a pass is about to execute the operation Current
InPass == mode \in {"replay", "defer"} /\ Len(stack) > 0 /\ AtOp
InReplay == mode = "replay" /\ Len(stack) > 0 /\ AtOp
InDefer == mode = "defer" /\ Len(stack) > 0 /\ AtOp
\* the frame after an operation that returned without entering a nested list
Advanced == [stack EXCEPT ![Len(stack)].pc = @ + 1]
\* the calls the step has added to the log
NewCalls == SubSeq(log', Len(log) + 1, Len(log'))
Extends == Len(log') >= Len(log) /\ SubSeq(log', 1, Len(log)) = log
ClipChildrenSet == BitAnd1(mReplayFlags, kReplayFlag_ClipChildren)
Skipped(op) == op.mQuickRejected /\ ClipChildrenSet
IsComposition(op) == op.kind = "DrawDisplayList"
OpAt(src) == lists[src[1]][src[2]]
\* the step changed nothing but the position in the list
NoEffect ==
    /\ renderer' = renderer
    /\ log' = log
    /\ mDeferredList' = mDeferredList
    /\ mDrawGlStatus' = mDrawGlStatus
    /\ lists' = lists
    /\ stack' = Advanced

-----------------------------------------------------------------------------
(* C1 *)

\* C1 as claimed: in a pass with the clip-children flag, the defer or replay of
\* a quick-rejected DrawOp of any kind, the composition op included, has no
\* effect: no renderer call, no batch-buffer call, no write to state.mBounds,
\* no change of the draw status, no nested list entered.
C1_AnyKindSkipped ==
    [][ (InPass /\ IsDrawOp(Current) /\ Skipped(Current)) => NoEffect ]_vars

\* C1 amended: the same for every DrawOp kind except DrawDisplayListOp, whose
\* defer and replay do not look at the flag.
C1_DrawOpSkipped ==
    [][ (InPass /\ IsDrawOp(Current) /\ ~IsComposition(Current) /\ Skipped(Current))
            => NoEffect ]_vars

\* a quick-rejected rectangle has just been passed over by a defer pass
C1_Witness ==
    /\ mode = "defer"
    /\ ClipChildrenSet
    /\ Len(stack) = 1
    /\ TopFrame.pc = 2
    /\ lists[Root][1].kind = "DrawRect"
    /\ lists[Root][1].mQuickRejected
    /\ log = << >>

-----------------------------------------------------------------------------
(* C2 *)

Scenario1 ==
    << SaveOp(1), TranslateOp(10, 20), DrawRectOp(0, 0, 50, 50, 1), RestoreToCountOp(1) >>

\* names and arguments of the calls observed so far
Observed == [i \in 1..Len(log) |-> <<log[i].call, log[i].args>>]

\* the renderer entry a state operation is recorded for
StateCallName(op) ==
    CASE op.kind = "Save" -> "save"
      [] op.kind = "RestoreToCount" -> "restoreToCount"
      [] op.kind = "SaveLayer" -> "saveLayer"
      [] op.kind = "Translate" -> "translate"
      [] op.kind = "ClipRect" -> "clipRect"
      [] op.kind = "ClipPath" -> "clipPath"
      [] op.kind = "ClipRegion" -> "clipRegion"
      [] OTHER -> PlainStateCall[op.kind]
\* its recorded parameters, a restore count being an offset from the baseline
RecordedArgs(op) ==
    IF op.kind = "RestoreToCount" THEN <<baseline + op.args[1]>> ELSE op.args

IsMark(e) == e.call \in {"startMark", "endMark"}
NotMark(e) == ~IsMark(e)

\* one replay step issues the call of its operation, with the recorded
\* parameters (debug marks aside; a composition op stands for its nested list)
C2_StepCalls(exempt) ==
    InReplay /\ Current.kind \notin exempt =>
        LET op == Current
            prim == SelectSeq(NewCalls, NotMark)
        IN /\ Extends
           /\ IF (IsDrawOp(op) /\ Skipped(op)) \/ IsComposition(op)
              THEN prim = << >>
              ELSE /\ Len(prim) = 1
                   /\ prim[1].who = "renderer"
                   /\ prim[1].src = <<TopFrame.list, TopFrame.pc>>
                   /\ IF IsStateOp(op)
                      THEN /\ prim[1].call = StateCallName(op)
                           /\ prim[1].args = RecordedArgs(op)
                      ELSE prim[1].call \in DrawCalls

C2_ScenarioCalls ==
    (lists[Root] = Scenario1 /\ via = "replay" /\ mode = "done") =>
        Observed = << <<"save", <<1>>>>, <<"translate", <<10, 20>>>>,
                      <<"drawRect", <<0, 0, 50, 50, 1>>>>,
                      <<"restoreToCount", <<baseline + 1>>>> >>

\* C2 as claimed: replay issues the renderer calls of the operations in
\* recorded order, one per operation that is not rejected, with the recorded
\* parameters; the list Save(1), Translate(10,20), DrawRect(0,0,50,50),
\* RestoreToCount(1) is observed as save, translate, drawRect,
\* restoreToCount(baseline+1) and nothing else.
C2_ReplayInOrder == [](C2_ScenarioCalls) /\ [][C2_StepCalls({})]_vars

\* what holds of every operation kind but ClipRegionOp
C2_ReplayInOrderButClipRegion ==
    [](C2_ScenarioCalls) /\ [][C2_StepCalls({"ClipRegion"})]_vars

\* the scenario list has been replayed to its end
C2_Witness ==
    /\ lists[Root] = Scenario1
    /\ via = "replay"
    /\ mode = "done"
    /\ Len(log) = 4
    /\ startCount = 2

-----------------------------------------------------------------------------
(* C3 *)

\* the operations a pass executes, nested lists expanded in place
RECURSIVE Flatten(_, _)
Flatten(list, depth) ==
    LET ops == lists[list]
        F[i \in 0..Len(ops)] ==
            IF i = 0 THEN << >>
            ELSE LET op == ops[i] IN
                 F[i - 1] \o
                 (IF IsComposition(op)
                  THEN IF op.mDisplayList # NullList /\ Len(lists[op.mDisplayList]) > 0
                          /\ depth > 0
                       THEN Flatten(op.mDisplayList, depth - 1)
                       ELSE << >>
                  ELSE << op >>)
    IN F[Len(ops)]

\* recording depth after the operations: a save or save-layer opens a scope,
\* RestoreToCount(c) closes the scopes above c (the recorder starts at 1)
RECURSIVE ScopeDepth(_, _)
ScopeDepth(ops, n) ==
    IF n = 0 THEN 1
    ELSE LET d == ScopeDepth(ops, n - 1)
             op == ops[n]
         IN IF op.kind \in {"Save", "SaveLayer"} THEN d + 1
            ELSE IF op.kind = "RestoreToCount" THEN Min(d, Max(op.args[1], 1))
            ELSE d

\* every save of the executed list is matched by a later RestoreToCount
SavesMatched == LET ops == Flatten(Root, 3) IN ScopeDepth(ops, Len(ops)) = 1
HasSave == \E i \in 1..Len(lists[Root]) : lists[Root][i].kind \in {"Save", "SaveLayer"}

\* C3: when every save is matched by a RestoreToCount, the renderer's
\* save-count after the replay pass, after the defer pass and after the flush
\* that follows it equals the save-count before the pass.
C3_SaveCountBalanced ==
    (SavesMatched /\ (mode = "done" \/ (mode = "flush" /\ fpc = 1)))
        => Len(renderer) = startCount

\* a list with a matched save has been deferred and flushed from inside a save scope
C3_Witness ==
    /\ via = "defer"
    /\ mode = "done"
    /\ HasSave
    /\ SavesMatched
    /\ startCount = 2
    /\ \E i \in 1..Len(log) : log[i].call = "restoreToCount" /\ log[i].sc > startCount

-----------------------------------------------------------------------------
(* C4 *)

-----------------------------------------------------------------------------
(* C5 *)

ClipCalls == {"clipRect", "clipPath", "clipRegion"}
Here == <<TopFrame.list, TopFrame.pc>>

\* C5: the defer of a clip operation first calls addClip, while the renderer
\* still has the clip it had before the operation, and only then applies the
\* clip to the renderer.
C5_AddClipBeforeClip ==
    [][ (InDefer /\ Current.kind \in ClipKinds) =>
            /\ Extends
            /\ Len(NewCalls) = 2
            /\ NewCalls[1].who = "batch"
            /\ NewCalls[1].call = "addClip"
            /\ NewCalls[1].src = Here
            /\ NewCalls[1].clip = ClipOf(renderer)
            /\ NewCalls[2].who = "renderer"
            /\ NewCalls[2].call \in ClipCalls
            /\ NewCalls[2].src = Here
            /\ NewCalls[2].clip = ClipOf(renderer) ]_vars

\* a clip has been deferred and has changed the renderer's clip after addClip saw it
C5_Witness ==
    /\ mode = "defer"
    /\ Len(log) >= 2
    /\ log[Len(log) - 1].call = "addClip"
    /\ log[Len(log)].call = "clipRect"
    /\ log[Len(log) - 1].clip # ClipOf(renderer)

-----------------------------------------------------------------------------
(* C6 *)

\* C6: the defer of a SaveLayerOp calls addSaveLayer with the renderer's
\* current save-count and then saveLayerDeferred with the recorded area,
\* alpha, mode and flags; no defer pass ever calls saveLayer, which only
\* replay and flush issue, through applyState.
C6_NoSaveLayerInDefer ==
    \A i \in 1..Len(log) :
        log[i].call = "saveLayer" =>
            /\ via = "replay" \/ mode \in {"flush", "done"}
            /\ via = "defer" => \E j \in 1..(i - 1) : log[j].call = "addSaveLayer"
            /\ OpAt(log[i].src).kind = "SaveLayer"
            /\ log[i].args = OpAt(log[i].src).args

C6_SaveLayerDeferred ==
    /\ [](C6_NoSaveLayerInDefer)
    /\ [][ (InDefer /\ Current.kind = "SaveLayer") =>
            /\ Extends
            /\ Len(NewCalls) = 2
            /\ NewCalls[1].who = "batch"
            /\ NewCalls[1].call = "addSaveLayer"
            /\ NewCalls[1].args = <<Len(renderer)>>
            /\ NewCalls[1].sc = Len(renderer)
            /\ NewCalls[2].who = "renderer"
            /\ NewCalls[2].call = "saveLayerDeferred"
            /\ NewCalls[2].args = Current.args
            /\ Len(renderer') = Len(renderer) + 1 ]_vars

\* a SaveLayerOp was deferred and the flush has issued the real saveLayer
C6_Witness ==
    /\ via = "defer"
    /\ mode = "done"
    /\ Len(log) = 3
    /\ log[1].call = "addSaveLayer"
    /\ log[2].call = "saveLayerDeferred"
    /\ log[3].call = "saveLayer"

-----------------------------------------------------------------------------
(* C7 *)

RegisteringKinds == {"Save", "RestoreToCount", "SaveLayer"} \cup ClipKinds
FromRenderer(e) == e.who = "renderer"
FromBatch(e) == e.who = "batch"

\* C7 as claimed: the defer of every StateOp, of every kind, calls the
\* renderer and registers the operation with the deferred batch buffer.
C7_EveryStateOpRegisters ==
    [][ (InDefer /\ IsStateOp(Current)) =>
            /\ Extends
            /\ Len(SelectSeq(NewCalls, FromRenderer)) = 1
            /\ Len(SelectSeq(NewCalls, FromBatch)) = 1 ]_vars

\* C7 amended: the defer of every StateOp makes exactly one renderer call, at
\* once; SaveOp, RestoreToCountOp, SaveLayerOp and the clip operations also
\* make one batch-buffer call, every other StateOp makes none.
C7_StateOpDefer ==
    [][ (InDefer /\ IsStateOp(Current)) =>
            /\ Extends
            /\ Len(SelectSeq(NewCalls, FromRenderer)) = 1
            /\ SelectSeq(NewCalls, FromRenderer)[1].src = Here
            /\ SelectSeq(NewCalls, FromRenderer)[1].call =
                  (IF Current.kind = "SaveLayer" THEN "saveLayerDeferred"
                   ELSE StateCallName(Current))
            /\ Len(SelectSeq(NewCalls, FromBatch)) =
                  (IF Current.kind \in RegisteringKinds THEN 1 ELSE 0)
            /\ mDeferredList' = mDeferredList \/ Current.kind \in RegisteringKinds ]_vars

\* a translate has been deferred: the renderer was called, nothing registered
C7_Witness ==
    /\ mode = "defer"
    /\ Len(log) = 1
    /\ log[1].call = "translate"
    /\ log[1].who = "renderer"
    /\ mDeferredList = << >>
    /\ Top(renderer).tx = 10

-----------------------------------------------------------------------------
(* C8 *)

IsDrawCall(e) == e.call \in DrawCalls \cup {"startMark", "endMark"}
IsAddDrawOp(e) == e.call = "addDrawOp"
Deferrable(op) == IsDrawOp(op) /\ ~IsComposition(op) /\ ~Skipped(op)

C8_NoDrawWhileDeferring ==
    mode = "defer" => \A i \in 1..Len(log) : ~IsDrawCall(log[i])

\* C8: a defer pass never invokes a renderer draw primitive; the defer of a
\* DrawOp that is neither skipped by quick rejection nor a composition op
\* hands that operation to addDrawOp, once, so the batch buffer receives the
\* draw operations in recorded order.  Other operations never call addDrawOp.
C8_DrawOpsDeferredInOrder ==
    /\ [](C8_NoDrawWhileDeferring)
    /\ [][ InDefer =>
            /\ Extends
            /\ Len(mDeferredList') >= Len(mDeferredList)
            /\ SubSeq(mDeferredList', 1, Len(mDeferredList)) = mDeferredList
            /\ IF Deferrable(Current)
               THEN /\ Len(NewCalls) = 1
                    /\ NewCalls[1].who = "batch"
                    /\ NewCalls[1].call = "addDrawOp"
                    /\ NewCalls[1].src = Here
                    /\ Len(mDeferredList') = Len(mDeferredList) + 1
                    /\ mDeferredList'[Len(mDeferredList')].call = "addDrawOp"
                    /\ mDeferredList'[Len(mDeferredList')].src = Here
               ELSE SelectSeq(NewCalls, IsAddDrawOp) = << >> ]_vars

\* a nested list has been deferred twice: its first draw operation was handed
\* over each time, its quick-rejected second one never
C8_Witness ==
    /\ mode = "flush"
    /\ fpc = 1
    /\ ClipChildrenSet
    /\ Len(SelectSeq(log, IsAddDrawOp)) = 2
    /\ \A i \in 1..Len(log) : IsAddDrawOp(log[i]) => log[i].src = <<3, 1>>

-----------------------------------------------------------------------------
(* C9 *)

\* C9: when addDrawOp is called the operation's state.mBounds already holds
\* its local bounds, or the empty rectangle when getLocalBounds reports none;
\* an operation without bounds is handed over all the same.
C9_BoundsBeforeAddDrawOp ==
    [][ (InDefer /\ Deferrable(Current)) =>
            LET lb == getLocalBounds(Current, Current.mBounds) IN
            /\ Len(log') = Len(log) + 1
            /\ log'[Len(log')].call = "addDrawOp"
            /\ log'[Len(log')].src = Here
            /\ log'[Len(log')].bounds = (IF lb.ok THEN lb.rect ELSE EmptyRect)
            /\ Current.kind \in UnboundedKinds => log'[Len(log')].bounds = <<0, 0, 0, 0>>
            /\ Current.kind \in (BoundedKinds \ StrokableKinds)
                  => log'[Len(log')].bounds = Current.mLocalBounds ]_vars

\* an operation without bounds is deferred a second time: its state.mBounds,
\* left non-empty by the first deferral, was empty again at addDrawOp
C9_Witness ==
    /\ mode = "defer"
    /\ \E i, j \in 1..Len(log) :
          /\ i < j
          /\ log[i].call = "addDrawOp" /\ log[i].src = <<3, 1>>
          /\ log[j].call = "addDrawOp" /\ log[j].src = <<3, 1>>
          /\ log[j].bounds = EmptyRect
    /\ ~RectIsEmpty(lists[3][1].mBounds)

-----------------------------------------------------------------------------
(* C10 *)

NestedOf(op) == op.mDisplayList
Recurses(op) == NestedOf(op) # NullList /\ Len(lists[NestedOf(op)]) > 0

\* C10: the defer or replay of a DrawDisplayListOp makes no call on the
\* renderer or the batch buffer and changes neither the draw status nor any
\* operation; it continues with the nested list, one level deeper, exactly
\* when the list is present and renderable, and otherwise just returns.
C10_CompositionRecurses ==
    [][ (InPass /\ IsComposition(Current)) =>
            /\ renderer' = renderer
            /\ log' = log
            /\ mDeferredList' = mDeferredList
            /\ mDrawGlStatus' = mDrawGlStatus
            /\ lists' = lists
            /\ mode' = mode
            /\ IF Recurses(Current)
               THEN stack' = Append(Advanced,
                                    Frame(NestedOf(Current), 1, TopFrame.level + 1))
               ELSE stack' = Advanced ]_vars

\* two compositions have recursed: the pass is in a list two levels below the
\* root, and nothing has been drawn or registered on the way down
C10_Witness ==
    /\ mode = "defer"
    /\ Len(stack) = 3
    /\ TopFrame.level = 2
    /\ TopFrame.list = 3
    /\ stack[2].list = 2

\* a composition of a list that is not renderable has been passed over
C10_WitnessNotRenderable ==
    /\ mode = "replay"
    /\ Len(stack) = 1
    /\ TopFrame.pc = 2
    /\ lists[Root][1].kind = "DrawDisplayList"
    /\ lists[Root][1].mDisplayList = 4
    /\ log = << >>

-----------------------------------------------------------------------------
(* C11 *)

\* the replay of op calls applyDraw
Drawn(op) == IsDrawOp(op) /\ ~IsComposition(op) /\ ~Skipped(op)

\* C11: in a replay pass the draw status only grows: a step that draws ORs the
\* status its applyDraw returned into the accumulator, every other step
\* (state operation, skipped draw operation, composition, list return) leaves
\* it as it was, and no bit that is set is ever cleared.
C11_StatusAccumulates ==
    [][ mode = "replay" =>
            /\ BitAnd(mDrawGlStatus', mDrawGlStatus) = mDrawGlStatus
            /\ IF InReplay /\ Drawn(Current)
               THEN /\ ret' # NoStatus
                    /\ mDrawGlStatus' = BitOr(mDrawGlStatus, ret'[1])
               ELSE /\ mDrawGlStatus' = mDrawGlStatus
                    /\ InReplay => ret' = NoStatus ]_vars

\* a functor asked for an invoke, then a draw reported that it drew: both bits
\* are in the accumulator when the replay is over
C11_Witness ==
    /\ mode = "done"
    /\ via = "replay"
    /\ mDrawGlStatus = kStatusInvoke + kStatusDrew
    /\ ret = <<kStatusDrew>>

\* a later draw returned kStatusDone: the bit an earlier one set is still there
C11_WitnessKept ==
    /\ mode = "done"
    /\ via = "replay"
    /\ mDrawGlStatus = kStatusDrew
    /\ ret = <<kStatusDone>>

-----------------------------------------------------------------------------
(* C12 *)

\* C12: in a pass without the clip-children flag a draw operation (the
\* composition aside, which never draws itself) executes in full whether it is
\* quick-rejected or not: its replay calls its draw primitive and ors the
\* returned status into the accumulator, its defer writes its bounds and hands
\* it to addDrawOp.
C12_FullWithoutClipChildren ==
    [][ (InPass /\ ~ClipChildrenSet /\ IsDrawOp(Current) /\ ~IsComposition(Current)) =>
            /\ Extends
            /\ mode = "replay" =>
                  /\ \E i \in 1..Len(NewCalls) :
                        /\ NewCalls[i].call \in DrawCalls
                        /\ NewCalls[i].src = Here
                        /\ Current.kind # "DrawFunctor" =>
                              /\ Len(NewCalls) = 1
                              /\ NewCalls[i].call = DrawPrimitive(World)[1]
                              /\ NewCalls[i].args = DrawPrimitive(World)[2]
                  /\ ret' # NoStatus
                  /\ mDrawGlStatus' = BitOr(mDrawGlStatus, ret'[1])
            /\ mode = "defer" =>
                  LET lb == getLocalBounds(Current, Current.mBounds) IN
                  /\ Len(NewCalls) = 1
                  /\ NewCalls[1].call = "addDrawOp"
                  /\ NewCalls[1].src = Here
                  /\ NewCalls[1].bounds = (IF lb.ok THEN lb.rect ELSE EmptyRect)
                  /\ Len(mDeferredList') = Len(mDeferredList) + 1 ]_vars

\* a quick-rejected operation has been drawn by a replay without the flag
C12_Witness ==
    /\ mode = "replay"
    /\ ~ClipChildrenSet
    /\ Len(log) = 1
    /\ log[1].call \in DrawCalls
    /\ OpAt(log[1].src).mQuickRejected
    /\ ret = <<kStatusDrew>>

\* a quick-rejected operation has been handed over by a defer without the flag
C12_WitnessDefer ==
    /\ mode = "defer"
    /\ ~ClipChildrenSet
    /\ Len(log) = 1
    /\ log[1].call = "addDrawOp"
    /\ OpAt(log[1].src).mQuickRejected

-----------------------------------------------------------------------------
(* C13 *)

IsPrefix(a, b) == Len(a) <= Len(b) /\ SubSeq(b, 1, Len(a)) = a

\* C13: a second replay of the same list, started from the renderer state, the
\* flags and the baseline of the first, makes the same calls with the same
\* arguments in the same order, observes the same save-counts and clips, and
\* ends with the same draw status, the same renderer state and the same
\* operations: nothing the first replay left in an operation changes it.
C13_ReplayTwiceSame ==
    first.kept =>
        /\ IsPrefix(log, first.log)
        /\ lists = first.lists
        /\ mode = "done" =>
              /\ log = first.log
              /\ mDrawGlStatus = first.status
              /\ renderer = first.renderer

\* the second replay of a list that nests two levels of lists is over, and
\* drew with the clip-children flag set
C13_Witness ==
    /\ first.kept
    /\ mode = "done"
    /\ ClipChildrenSet
    /\ Len(first.log) >= 4
    /\ first.status = kStatusDrew
    /\ \E i \in 1..Len(log) : log[i].src = <<3, 1>>

\* a clip-region operation, whose set operation is read from a member that is
\* never initialised, has been replayed twice
C13_WitnessClipRegion ==
    /\ first.kept
    /\ mode = "done"
    /\ Len(log) = 1
    /\ log[1].call = "clipRegion"
    /\ log[1].args[2] # kReplace_Op

-----------------------------------------------------------------------------
(* C14 *)

ListIds == DOMAIN lists
\* the recorded parameters and the quick-rejection flag
Recorded(op) ==
    <<op.kind, op.args, op.mPaint, op.mQuickRejected, op.mLocalBounds, op.mDisplayList>>
\* the operations that are not the same after the step
Places == UNION {{<<l, i>> : i \in 1..Len(lists[l])} : l \in ListIds}
Changed == {src \in Places : lists'[src[1]][src[2]] # lists[src[1]][src[2]]}
SameLists == \A l \in ListIds : Len(lists'[l]) = Len(lists[l])
RecordedKept ==
    \A l \in ListIds : \A i \in 1..Len(lists[l]) :
        Recorded(lists'[l][i]) = Recorded(lists[l][i])

\* C14 as claimed: no pass changes a recorded parameter or a quick-rejection
\* flag; a replay changes no field of any operation; a defer changes only
\* state.mBounds of the draw operation it hands to the batch buffer.
C14_OnlyBoundsWritten ==
    [][ InPass =>
            /\ SameLists
            /\ RecordedKept
            /\ mode = "replay" => lists' = lists
            /\ mode = "defer" =>
                  /\ Changed \subseteq {Here}
                  /\ Changed # {} =>
                        /\ Deferrable(Current)
                        /\ lists'[Here[1]][Here[2]] =
                              [Current EXCEPT !.mBounds = lists'[Here[1]][Here[2]].mBounds]
      ]_vars

\* C14, amended: as above, but the defer of a DrawTextOp also writes its
\* precache-transform cache (mPrecacheTransform) in onDrawOpDeferred.
C14_FrameOfPasses ==
    [][ InPass =>
            /\ SameLists
            /\ RecordedKept
            /\ mode = "replay" => lists' = lists
            /\ mode = "defer" =>
                  /\ Changed \subseteq {Here}
                  /\ Changed # {} =>
                        /\ Deferrable(Current)
                        /\ lists'[Here[1]][Here[2]] =
                              [Current EXCEPT
                                 !.mBounds = lists'[Here[1]][Here[2]].mBounds,
                                 !.mPrecacheTransform =
                                     IF Current.kind = "DrawText"
                                     THEN lists'[Here[1]][Here[2]].mPrecacheTransform
                                     ELSE @]
      ]_vars

\* a DrawTextOp has been deferred: its bounds and its cache were written
C14_Witness ==
    /\ mode = "defer"
    /\ Len(lists[Root]) = 1
    /\ lists[Root][1].kind = "DrawText"
    /\ Len(log) = 1
    /\ log[1].call = "addDrawOp"
    /\ lists[Root][1].mPrecacheTransform = Identity
    /\ ~RectIsEmpty(lists[Root][1].mBounds)

-----------------------------------------------------------------------------
(* C15 *)

Classified == probe.stage = "classified"
ProbePaint == Paints[probe.paint]
\* the operations that are drawn with a stroke: the strokable shapes when their
\* paint strokes, and lines and points always
StrokeDrawn ==
    \/ probe.kind \in StrokableKinds /\ ProbePaint.style # kFill_Style
    \/ probe.kind \in {"DrawLines", "DrawPoints"}

\* C15 as claimed: every draw operation that strokes, lines and points
\* included, reports the alpha-mask-texture batch id when its paint has a path
\* effect, whatever the antialiasing flag.
C15_StrokePathEffectAlphaMask ==
    (Classified /\ StrokeDrawn /\ ProbePaint.pathEffect)
        => probe.batchId = "kOpBatch_AlphaMaskTexture"

\* C15, amended: a DrawStrokableOp (rect, round rect, circle, oval, arc) whose
\* paint has a path effect reports the alpha-mask-texture batch id, whatever
\* the antialiasing flag and the paint style; DrawLinesOp and DrawPointsOp do
\* not look at the path effect and report by the antialiasing flag alone.
C15_StrokablePathEffectAlphaMask ==
    Classified =>
        /\ (probe.kind \in StrokableKinds /\ ProbePaint.pathEffect)
              => probe.batchId = "kOpBatch_AlphaMaskTexture"
        /\ probe.kind \in {"DrawLines", "DrawPoints"}
              => probe.batchId = (IF ProbePaint.antiAlias THEN "kOpBatch_AlphaVertices"
                                  ELSE "kOpBatch_Vertices")

\* a stroked oval with a path effect and antialiasing off has been classified
C15_Witness ==
    /\ Classified
    /\ probe.kind = "DrawOval"
    /\ ProbePaint.style # kFill_Style
    /\ ProbePaint.pathEffect
    /\ ~ProbePaint.antiAlias
    /\ probe.batchId = "kOpBatch_AlphaMaskTexture"

-----------------------------------------------------------------------------
(* C16 *)

\* C16 as claimed: a strokable shape with a fill-style, antialiased paint
\* reports the antialiased-vertices batch id.
C16_FillAntiAliasAlphaVertices ==
    (/\ Classified
     /\ probe.kind \in StrokableKinds
     /\ ProbePaint.style = kFill_Style
     /\ ProbePaint.antiAlias)
        => probe.batchId = "kOpBatch_AlphaVertices"

\* C16, amended: a strokable shape with a fill-style, antialiased paint that
\* has no path effect reports the antialiased-vertices batch id; with a path
\* effect it reports the alpha-mask-texture batch id, fill style or not.
C16_FillAntiAliasNoPathEffect ==
    (/\ Classified
     /\ probe.kind \in StrokableKinds
     /\ ProbePaint.style = kFill_Style
     /\ ProbePaint.antiAlias)
        => probe.batchId = (IF ProbePaint.pathEffect THEN "kOpBatch_AlphaMaskTexture"
                            ELSE "kOpBatch_AlphaVertices")

\* a filled, antialiased circle without a path effect has been classified
C16_Witness ==
    /\ Classified
    /\ probe.kind = "DrawCircle"
    /\ ProbePaint.style = kFill_Style
    /\ ProbePaint.antiAlias
    /\ ~ProbePaint.pathEffect
    /\ probe.batchId = "kOpBatch_AlphaVertices"

-----------------------------------------------------------------------------
(* C17 *)

\* the batch id the operation of the probe's kind and paint reports when built
\* over another rectangle or other points, marked rejected or not
BatchIdOfOther(rect, rejected) ==
    getBatchId(setQuickRejected(
        New(probe.kind, probe.paint, rect, <<9, 1, 1, 9>>, 4), rejected))
OtherRects == ProbeRects \cup {<<3, 3, 7, 7>>}
ByKindAndPaintOnly ==
    \A rect \in OtherRects, rejected \in BOOLEAN :
        BatchIdOfOther(rect, rejected) = probe.batchId

\* C17 as claimed: a DrawRectOp whose paint fills and has antialiasing off
\* reports the plain-vertices batch id whatever its bounds and quickRejected
\* flag, and the batch id of any draw operation depends on its kind and paint
\* only.
C17_FillRectPlainVertices ==
    Classified =>
        /\ (/\ probe.kind = "DrawRect"
            /\ ProbePaint.style = kFill_Style
            /\ ~ProbePaint.antiAlias) => probe.batchId = "kOpBatch_Vertices"
        /\ ByKindAndPaintOnly

\* C17, amended: a DrawRectOp whose paint fills, has antialiasing off and has
\* no path effect reports the plain-vertices batch id whatever its bounds and
\* quickRejected flag; with a path effect it reports the alpha-mask-texture
\* batch id.  The batch id of any draw operation depends on its kind and paint
\* only.
C17_FillRectNoPathEffectPlainVertices ==
    Classified =>
        /\ (/\ probe.kind = "DrawRect"
            /\ ProbePaint.style = kFill_Style
            /\ ~ProbePaint.antiAlias)
              => probe.batchId = (IF ProbePaint.pathEffect THEN "kOpBatch_AlphaMaskTexture"
                                  ELSE "kOpBatch_Vertices")
        /\ ByKindAndPaintOnly

\* a filled rectangle, antialiasing off, no path effect, over the second
\* rectangle and marked rejected, has been classified as plain vertices
C17_Witness ==
    /\ Classified
    /\ probe.kind = "DrawRect"
    /\ ProbePaint.style = kFill_Style
    /\ ~ProbePaint.antiAlias
    /\ ~ProbePaint.pathEffect
    /\ probe.rect = <<60, 70, 80, 90>>
    /\ probe.op.mQuickRejected
    /\ probe.batchId = "kOpBatch_Vertices"

-----------------------------------------------------------------------------
(* C18 *)

TextKinds == {"DrawText", "DrawTextOnPath", "DrawPosText"}
\* 0xff000000: alpha 255, red, green and blue 0
OpaqueBlack(color) == color[1] = 255 /\ color[2] = 0 /\ color[3] = 0 /\ color[4] = 0

\* C18: a text operation (DrawTextOp, DrawTextOnPathOp, DrawPosTextOp) reports
\* the text batch id exactly when its paint's colour is opaque black, and the
\* coloured-text batch id for every other colour, black with alpha below 255
\* included.
C18_TextBatchByOpaqueBlack ==
    (Classified /\ probe.kind \in TextKinds) =>
        /\ OpaqueBlack(ProbePaint.color) <=> probe.batchId = "kOpBatch_Text"
        /\ ~OpaqueBlack(ProbePaint.color) <=> probe.batchId = "kOpBatch_ColorText"

\* a DrawTextOp whose paint is black with alpha 128 has been classified as
\* coloured text
C18_Witness ==
    /\ Classified
    /\ probe.kind = "DrawText"
    /\ ProbePaint.color = <<128, 0, 0, 0>>
    /\ probe.batchId = "kOpBatch_ColorText"

-----------------------------------------------------------------------------
(* C19 *)

Built == probe.stage \in {"built", "classified"}
SetMin(S) == CHOOSE x \in S : \A y \in S : x <= y
SetMax(S) == CHOOSE x \in S : \A y \in S : x >= y
XsOf(points) == {points[i] : i \in {j \in 1..Len(points) : j % 2 = 1}}
YsOf(points) == {points[i] : i \in {j \in 1..Len(points) : j % 2 = 0}}
\* the smallest axis-aligned rectangle containing every point of the array
SmallestRect(points) ==
    <<SetMin(XsOf(points)), SetMin(YsOf(points)),
      SetMax(XsOf(points)), SetMax(YsOf(points))>>
FromPoints == Built /\ probe.kind \in PointKinds /\ probe.points # << >>

-----------------------------------------------------------------------------
(* C20 *)

\* C20 as claimed: construction from zero points is refused, so no
\* point-derived operation built from an empty array ever exists.
C20_ZeroPointsNeverBuilt ==
    (Built /\ probe.kind \in PointKinds) => probe.points # << >>

-----------------------------------------------------------------------------
(* C21 *)

\* the recorded rectangle, moved outwards on every side by half the stroke
\* width when there is a paint and it does not fill
StrokeBounds(op) ==
    IF op.mPaint = NullPaint THEN op.mLocalBounds
    ELSE IF Paints[op.mPaint].style = kFill_Style THEN op.mLocalBounds
    ELSE <<op.mLocalBounds[1] - Paints[op.mPaint].strokeWidth \div 2,
           op.mLocalBounds[2] - Paints[op.mPaint].strokeWidth \div 2,
           op.mLocalBounds[3] + Paints[op.mPaint].strokeWidth \div 2,
           op.mLocalBounds[4] + Paints[op.mPaint].strokeWidth \div 2>>
DeferralsOf(src) == {i \in 1..Len(log) : log[i].call = "addDrawOp" /\ log[i].src = src}

\* C21: whenever a stroke-capable operation (rect, round rect, circle, oval,
\* arc) is deferred, the bounds it hands over are its recorded rectangle grown
\* by half the stroke width when it has a paint whose style is not fill, and
\* the recorded rectangle itself otherwise; the recorded rectangle is not
\* changed, so every deferral of the operation starts from it again, whatever
\* state.mBounds an earlier deferral left.
C21_StrokeOutsetFromRecordedRect ==
    [][ (InDefer /\ Current.kind \in StrokableKinds /\ ~Skipped(Current)) =>
            /\ getLocalBounds(Current, Current.mBounds).ok
            /\ getLocalBounds(Current, Current.mBounds).rect = StrokeBounds(Current)
            /\ log'[Len(log')].call = "addDrawOp"
            /\ log'[Len(log')].bounds = StrokeBounds(Current)
            /\ lists'[Here[1]][Here[2]].mLocalBounds = Current.mLocalBounds
            /\ lists'[Here[1]][Here[2]].mBounds = storeDisplayState(World, StrokeBounds(Current))
      ]_vars

\* the stroked rectangle of list 3 (stroke width 4) has been deferred twice in
\* one pass: both times it handed over its recorded rectangle grown by 2
C21_Witness ==
    /\ mode = "defer"
    /\ Cardinality(DeferralsOf(<<3, 2>>)) = 2
    /\ \A i \in DeferralsOf(<<3, 2>>) : log[i].bounds = <<-1, -1, 7, 7>>
    /\ lists[3][2].mLocalBounds = <<1, 1, 5, 5>>

-----------------------------------------------------------------------------
(* C24 *)

\* C24: the defer of a SaveOp calls the renderer's save once, with the
\* recorded flags, and then addSave once, with the value save returned (the
\* renderer's save-count before the save); the baseline handed to defer
\* plays no part.
C24_SaveThenAddSave ==
    [][ (InDefer /\ Current.kind = "Save") =>
            /\ Extends
            /\ Len(NewCalls) = 2
            /\ NewCalls[1].who = "renderer"
            /\ NewCalls[1].call = "save"
            /\ NewCalls[1].args = Current.args
            /\ NewCalls[1].sc = Len(renderer)
            /\ NewCalls[2].who = "batch"
            /\ NewCalls[2].call = "addSave"
            /\ NewCalls[2].args = <<NewCalls[1].sc>>
            /\ NewCalls[2].sc = Len(renderer) + 1
            /\ Len(renderer') = Len(renderer) + 1 ]_vars

\* a second SaveOp has been deferred inside the first: addSave received the
\* save-count 3 that save returned, the baseline being 1
C24_Witness ==
    /\ mode = "defer"
    /\ baseline = 1
    /\ Len(log) = 4
    /\ log[3].call = "save"
    /\ log[4].call = "addSave"
    /\ log[4].args = <<3>>
    /\ Len(renderer) = 4

-----------------------------------------------------------------------------
(* C25 *)

\* C25: the defer of a RestoreToCountOp calls addRestoreToCount before the
\* renderer's restoreToCount, both with the baseline plus the recorded
\* count; at addRestoreToCount the renderer still has the save-count it had
\* before the operation.
C25_AddRestoreBeforeRestore ==
    [][ (InDefer /\ Current.kind = "RestoreToCount") =>
            /\ Extends
            /\ Len(NewCalls) = 2
            /\ NewCalls[1].who = "batch"
            /\ NewCalls[1].call = "addRestoreToCount"
            /\ NewCalls[1].args = <<baseline + Current.args[1]>>
            /\ NewCalls[1].sc = Len(renderer)
            /\ NewCalls[2].who = "renderer"
            /\ NewCalls[2].call = "restoreToCount"
            /\ NewCalls[2].args = NewCalls[1].args
            /\ NewCalls[2].sc = Len(renderer) ]_vars

\* after a save, a RestoreToCountOp has been deferred: addRestoreToCount was
\* called at save-count 3 with target 2, and the renderer is back at 2
C25_Witness ==
    /\ mode = "defer"
    /\ baseline = 1
    /\ \E i \in 1..Len(log) :
          /\ i + 1 = Len(log)
          /\ log[i].call = "addRestoreToCount"
          /\ log[i].args = <<2>>
          /\ log[i].sc = 3
          /\ log[i + 1].call = "restoreToCount"
          /\ log[i + 1].args = <<2>>
    /\ Len(renderer) = 2

-----------------------------------------------------------------------------
(* C26 *)

\* the state operations that inherit StateOp::defer
PlainKinds == StateKinds \ RegisteringKinds

\* C26: for every state operation that does not override defer, a defer
\* step and a replay step have the same effect: one renderer call, the one
\* the operation is recorded for, with the recorded parameters, and no call on
\* the deferred batch buffer.
C26_PlainStateOpSameInBothPasses ==
    [][ (InPass /\ Current.kind \in PlainKinds) =>
            /\ Extends
            /\ Len(NewCalls) = 1
            /\ NewCalls[1].who = "renderer"
            /\ NewCalls[1].call = StateCallName(Current)
            /\ NewCalls[1].args = Current.args
            /\ NewCalls[1].src = Here
            /\ mDeferredList' = mDeferredList
            /\ mDrawGlStatus' = mDrawGlStatus
            /\ lists' = lists
            /\ stack' = Advanced
            /\ renderer' = StateOp_replay(World, baseline, TopFrame.level, kIntersect_Op).r
      ]_vars

\* a SetupShadowOp has been deferred: the renderer was called with the
\* recorded parameters and nothing was registered
C26_Witness ==
    /\ mode = "defer"
    /\ Len(stack) = 1
    /\ TopFrame.pc = 2
    /\ lists[Root][1].kind = "SetupShadow"
    /\ Len(log) = 1
    /\ log[1].call = "setupShadow"
    /\ log[1].args = <<2, 1, 1, 9>>
    /\ mDeferredList = << >>

-----------------------------------------------------------------------------
(* C27 *)

\* C27: whether the defer or replay of a DrawDisplayListOp continues with
\* its nested list depends only on the list being present and renderable; a
\* composition marked quick-rejected recurses all the same, with or without
\* the clip-children flag.
C27_RecursionIgnoresQuickReject ==
    [][ (InPass /\ IsComposition(Current)) =>
            /\ Len(stack') = Len(stack) + 1 <=> Recurses(Current)
            /\ Len(stack') = Len(stack) <=> ~Recurses(Current)
            /\ (Skipped(Current) /\ Recurses(Current)) =>
                  /\ stack'[Len(stack')].list = NestedOf(Current)
                  /\ stack'[Len(stack')].pc = 1 ]_vars

\* in a replay with the clip-children flag, the quick-rejected composition in
\* list 2 has been replayed: the pass is at the start of list 3
C27_Witness ==
    /\ mode = "replay"
    /\ ClipChildrenSet
    /\ Len(stack) = 3
    /\ stack[2].list = 2
    /\ stack[2].pc = 5
    /\ lists[2][4].mQuickRejected
    /\ TopFrame.list = 3
    /\ TopFrame.pc = 1

-----------------------------------------------------------------------------
(* C22 *)

Reinitialised == probe.stage = "reinit"
\* the collaborators as an operation newly constructed with the same
\* parameters, standing in the same place, would see them
FreshWorld == [World EXCEPT !.lists[Root][1] = Construct(probe.op.kind, probe.p)]
FreshOutcome ==
    IF mode = "defer" THEN defer(FreshWorld, baseline, TopFrame.level, kIntersect_Op)
    ELSE replay(FreshWorld, baseline, TopFrame.level, kStatusDone, kIntersect_Op)

\* C22: after reinit(p) on a SaveOp, RestoreToCountOp, SaveLayerOp or
\* ClipRectOp, whatever parameters it held before (those of an earlier
\* construction, or none at all after the private default constructor), every
\* parameter field holds the value from p, and a defer or replay step of the
\* operation makes exactly the renderer and batch-buffer calls, with the same
\* arguments and the same effect on the renderer, that an operation newly
\* constructed with p would make.
C22_ReinitLikeFresh ==
    [][ /\ Reinitialised' => probe'.op.args = probe'.p
        /\ (InPass /\ Reinitialised /\ stack' = Advanced) =>
              /\ Current.args = Construct(Current.kind, probe.p).args
              /\ log' = FreshOutcome.log
              /\ renderer' = FreshOutcome.r
              /\ mDeferredList' = FreshOutcome.dl
              /\ Len(log') > Len(log)
              /\ \E i \in 1..Len(log') :
                    /\ log'[i].call = (IF mode = "defer" /\ Current.kind = "SaveLayer"
                                       THEN "saveLayerDeferred"
                                       ELSE StateCallName(Current))
                    /\ log'[i].args = (IF Current.kind = "RestoreToCount"
                                       THEN <<baseline + probe.p[1]>> ELSE probe.p)
      ]_vars

\* a ClipRectOp built with reverse-difference over one rectangle has been
\* reinitialised with intersect over another and then deferred: the renderer
\* received the new rectangle and intersect
C22_Witness ==
    /\ Reinitialised
    /\ mode = "defer"
    /\ probe.op.kind = "ClipRect"
    /\ probe.p = <<0, 5, 60, 40, kIntersect_Op>>
    /\ Len(log) = 2
    /\ log[1].call = "addClip"
    /\ log[2].call = "clipRect"
    /\ log[2].args = <<0, 5, 60, 40, kIntersect_Op>>
    /\ Top(renderer).clip = <<0, 5, 60, 40>>

-----------------------------------------------------------------------------
(* C23 *)

\* C23: the destructor and operator delete of an operation both end in the
\* trap: once either has been invoked there is no further step, of a pass or
\* of anything else; the operations leave the list only when the whole arena
\* is discarded.
C23_DestroyTraps ==
    [][ /\ ~probe.destroyed
        /\ probe'.destroyed => mode' = "trapped"
        /\ lists'[Root] # lists[Root] =>
              \/ ~Reinitialised /\ Reinitialised'
              \/ mode' = "discarded" /\ lists'[Root] = << >> ]_vars

\* an operation has been deleted in the middle of a defer pass: the process
\* is in the trap, the operation still in the list
C23_Witness ==
    /\ probe.destroyed
    /\ mode = "trapped"
    /\ via = "defer"
    /\ Len(stack) = 1
    /\ Len(lists[Root]) = 1
    /\ Len(log) > 0

-----------------------------------------------------------------------------
(* C29 *)

Asked == probe.stage \in {"old", "reinit"} /\ probe.complex # NotAsked
\* the set operation the clip operation was last given: by reinit, or else by
\* its constructor
LastSetOp ==
    IF Reinitialised THEN probe.p[5] ELSE probe.op.args[Len(probe.op.args)]

\* C29: canCauseComplexClip answers false exactly for a ClipRectOp whose set
\* operation is intersect or replace; it answers true for every ClipPathOp
\* and ClipRegionOp, whatever the set operation, and for a ClipRectOp with
\* difference, union, xor or reverse-difference; after reinit the answer
\* follows the set operation reinit was given.
C29_ComplexClipUnlessRectIntersectOrReplace ==
    Asked =>
        /\ probe.complex[1] = FALSE <=>
              (probe.op.kind = "ClipRect" /\ LastSetOp \in {kIntersect_Op, kReplace_Op})
        /\ probe.op.kind \in {"ClipPath", "ClipRegion"} => probe.complex[1] = TRUE
        /\ (probe.op.kind = "ClipRect" /\ LastSetOp \in OtherRegionOps)
              => probe.complex[1] = TRUE

\* a ClipRectOp has been reinitialised with replace and then asked: it
\* answered false
C29_Witness ==
    /\ Asked
    /\ Reinitialised
    /\ probe.op.kind = "ClipRect"
    /\ probe.p[5] = kReplace_Op
    /\ probe.complex = <<FALSE>>

\* a ClipRegionOp with intersect has been asked: it answered true
C29_WitnessRegion ==
    /\ Asked
    /\ probe.op.kind = "ClipRegion"
    /\ probe.op.args[2] = kIntersect_Op
    /\ probe.complex = <<TRUE>>

-----------------------------------------------------------------------------
(* C28 *)

\* an operation has been built without a paint
Paintless == probe.stage \in {"built", "classified", "fault"} /\ probe.paint = NullPaint
\* the operation was built, and a query on it faulted
QueryFaulted == probe.stage = "fault" /\ "op" \in DOMAIN probe

\* C28 as claimed: on every draw operation built without a paint the queries
\* of a defer pass complete: no query faults, getLocalBounds gives the
\* recorded bounds without stroke outset, and getBatchId gives a batch id
\* that shows no path effect and no antialiasing.
C28_PaintlessQueriesComplete ==
    Paintless =>
        /\ ~QueryFaulted
        /\ "op" \in DOMAIN probe =>
              getLocalBounds(probe.op, EmptyRect).rect \in {probe.op.mLocalBounds, EmptyRect}
        /\ Classified =>
              probe.batchId \notin {"kOpBatch_AlphaMaskTexture", "kOpBatch_AlphaVertices"}

====
